---- MODULE Spec2Model ----
(***************************************************************************)
(* Model of the marketplace notification relay (src/api): the Pub/Sub push *)
(* webhook handle_subscription_message, the handlers handle_entitlement    *)
(* and handle_account, and the procurement client calls they make.         *)
(*                                                                         *)
(* The remote procurement service holds one entitlement (id "e1") and one  *)
(* account (id "a1"); the handlers read them through get_entitlement and   *)
(* get_account and write through approve_entitlement and                   *)
(* approve_entitlement_plan_change.  A handler is cut into steps at its    *)
(* remote calls (procurement, email, Slack, Pub/Sub), which is where a     *)
(* request thread is suspended and another request may run.                *)
(*                                                                         *)
(* The browser flows (/signup, /activate) with their token verification    *)
(* and session, the control API and the client's list filter are modelled  *)
(* one request per step under SpecWeb; one procurement client call with    *)
(* its retry and rate-limit decorators is modelled under SpecClient.       *)
(***************************************************************************)
EXTENDS Integers, Sequences, FiniteSets, TLC

VARIABLES
    settings,          \* config.settings, default environment (read-only)
    product_settings,  \* settings.from_env(<product>) (read-only)
    entitlement,       \* the entitlement held by the procurement service
    account,           \* the account held by the procurement service
    delivery,          \* the Pub/Sub message being (re)delivered, or NoBody
    req,               \* the webhook requests, by worker slot
    session,           \* the Flask session of the browser
    web,               \* the last browser / control-API request and its answer
    client,            \* a procurement client call and its decorators
    limiter            \* one operation's limiter and the threads calling it

vars == <<settings, product_settings, entitlement, account, delivery, req,
          session, web, client, limiter>>

-----------------------------------------------------------------------------
(* Bounds *)

\* Number of webhook request slots (requests alive at the same time).
MaxReq == 2

Reqs == 1..MaxReq

-----------------------------------------------------------------------------
(* Values *)

\* Python's None, and a key that a dict does not have.
None == "None"
Absent == "<absent>"

\* Python truthiness of an optional string setting (None and "" are falsy).
Truthy(v) == v \notin {None, ""}

project_id == "p"
EntitlementId == "e1"
AccountId == <<"a1">>

\* Resource names are kept as their "/"-separated segments.
AccountName == <<"providers", project_id, "accounts", "a1">>
ForeignAccountName == <<"providers", "other", "accounts", "a1">>
UnknownAccountName == <<"providers", project_id, "accounts", "zz">>

EventTypes ==
    { "ENTITLEMENT_CREATION_REQUESTED", "ENTITLEMENT_ACTIVE",
      "ENTITLEMENT_PLAN_CHANGE_REQUESTED", "ENTITLEMENT_PLAN_CHANGED",
      "ENTITLEMENT_PLAN_CHANGE_CANCELLED", "ENTITLEMENT_CANCELLED",
      "ENTITLEMENT_PENDING_CANCELLATION", "ENTITLEMENT_CANCELLATION_REVERTED",
      "ENTITLEMENT_DELETED", "ENTITLEMENT_OFFER_ACCEPTED" }

\* An event type the handler has no branch for (entitlement.py:344).
UnlistedEventType == "ENTITLEMENT_OFFER_ENDED"

EntitlementStates ==
    { "ENTITLEMENT_ACTIVATION_REQUESTED", "ENTITLEMENT_ACTIVE",
      "ENTITLEMENT_PENDING_PLAN_CHANGE_APPROVAL", "ENTITLEMENT_CANCELLED",
      "ENTITLEMENT_SUSPENDED" }

-----------------------------------------------------------------------------
(* The remote resources *)

Approval(n, s) == [name |-> n, state |-> s]

\* A get_account answer: found = FALSE is the 404 answer (None).
Account(apps) == [found |-> TRUE, has_approvals |-> TRUE, approvals |-> apps]
NoAccount == [found |-> FALSE, has_approvals |-> FALSE, approvals |-> <<>>]
AccountWithoutApprovals ==
    [found |-> TRUE, has_approvals |-> FALSE, approvals |-> <<>>]

Accounts ==
    { NoAccount,
      AccountWithoutApprovals,
      Account(<<>>),
      Account(<<Approval("signup", "PENDING")>>),
      Account(<<Approval("signup", "APPROVED")>>),
      Account(<<Approval("signup", "REJECTED")>>),
      Account(<<Approval("signup", Absent)>>),
      Account(<<Approval("other", "APPROVED")>>),
      Account(<<Approval("other", "PENDING"), Approval("signup", "APPROVED")>>),
      Account(<<Approval("signup", "PENDING"), Approval("signup", "APPROVED")>>) }

\* A get_entitlement answer: found = FALSE is the 404 answer (None).
Entitlement(st, plan) ==
    [found |-> TRUE, product |-> <<"acme", "standard">>,
     account |-> AccountName, state |-> st, newPendingPlan |-> plan]
NoEntitlement ==
    [found |-> FALSE, product |-> <<>>, account |-> <<>>,
     state |-> Absent, newPendingPlan |-> Absent]

\* product / account = <<Absent>> stands for the key missing from the answer.
Entitlements ==
    { NoEntitlement }
    \cup { Entitlement(st, Absent) : st \in EntitlementStates }
    \cup { Entitlement("ENTITLEMENT_PENDING_PLAN_CHANGE_APPROVAL", p) :
             p \in {"plan-b", ""} }
    \cup { [Entitlement("ENTITLEMENT_ACTIVATION_REQUESTED", Absent)
               EXCEPT !.product = <<Absent>>],
           [Entitlement("ENTITLEMENT_ACTIVATION_REQUESTED", Absent)
               EXCEPT !.account = <<Absent>>],
           [Entitlement("ENTITLEMENT_ACTIVATION_REQUESTED", Absent)
               EXCEPT !.account = UnknownAccountName],
           [Entitlement("ENTITLEMENT_ACTIVE", Absent)
               EXCEPT !.account = ForeignAccountName],
           Entitlement(Absent, Absent) }

-----------------------------------------------------------------------------
(* Configuration *)

Recipients == { <<>>, <<"ops@example.com">> }

ProductSettings ==
    [ auto_approve_entitlements : BOOLEAN,
      email_recipients : Recipients,
      slack_webhook : {None, "https://hooks.slack.example/T1"},
      event_topic : {None, "projects/p/topics/changes"} ]

Settings == [ email_recipients : Recipients, auto_approve_entitlements : BOOLEAN ]

\* api.py:33, the module-level PublisherClient handed to handle_entitlement.
publisher == TRUE


-----------------------------------------------------------------------------
(* The webhook request body *)

NoId == "<no id>"

\* A push request body {message: {data: base64(utf8(json))}}, described by
\* what each decoding step of handle_subscription_message finds in it:
\*   envelope    what request.json gives: "unparsable" (it raises), "empty",
\*               "no_message", "no_data", or "ok";
\*   b64         the data string: "canonical" base64, canonical base64 with
\*               characters outside the alphabet in it ("stray"), or a
\*               string whose alphabet characters are not a whole number of
\*               quanta ("bad_padding");
\*   utf8, json  whether the decoded bytes are UTF-8 and then JSON;
\*   kind        the decoded JSON value: "object", "array" (of strings) or
\*               "number";
\*   entitlement, eventType, account
\*               the members of the decoded value (Absent when missing); for
\*               an object the entitlement/account member is the resource's
\*               id, or NoId for a resource object without "id";
\*   embedded    a "state" the sender put into the entitlement member next
\*               to its id (Absent when it put none).
Msg(ent, evt, acct) ==
    [envelope |-> "ok", b64 |-> "canonical", utf8 |-> TRUE, json |-> TRUE,
     kind |-> "object", entitlement |-> ent, eventType |-> evt, account |-> acct,
     embedded |-> Absent]

NoBody == [Msg(Absent, Absent, Absent) EXCEPT !.envelope = "none"]

EntitlementBodies ==
    { Msg(EntitlementId, evt, Absent) : evt \in EventTypes \cup {UnlistedEventType} }

AccountBodies ==
    { Msg(Absent, Absent, "a1"),
      Msg(EntitlementId, Absent, "a1"),
      Msg(Absent, "ENTITLEMENT_ACTIVE", "a1") }

\* Bodies that pass every decoding step and name a resource.
HandledBodies ==
    EntitlementBodies \cup AccountBodies
    \cup { Msg(EntitlementId, "ENTITLEMENT_CREATION_REQUESTED", "a1"),
           Msg(EntitlementId, "", Absent),
           Msg(NoId, "ENTITLEMENT_CREATION_REQUESTED", Absent),
           Msg(Absent, Absent, NoId) }

BaseBodies ==
    { Msg(EntitlementId, "ENTITLEMENT_CREATION_REQUESTED", Absent),
      Msg(Absent, Absent, "a1") }

Bodies ==
    HandledBodies
    \cup { [b EXCEPT !.envelope = e] :
             b \in BaseBodies, e \in {"unparsable", "empty", "no_message", "no_data"} }
    \cup { [b EXCEPT !.b64 = x] : b \in BaseBodies, x \in {"stray", "bad_padding"} }
    \cup { [b EXCEPT !.utf8 = FALSE] : b \in BaseBodies }
    \cup { [b EXCEPT !.json = FALSE] : b \in BaseBodies }
    \cup { [b EXCEPT !.kind = k] : b \in BaseBodies, k \in {"array", "number"} }
    \cup { Msg(Absent, Absent, Absent),
           Msg(EntitlementId, Absent, Absent),
           Msg(Absent, "ENTITLEMENT_CREATION_REQUESTED", Absent),
           [Msg(Absent, Absent, Absent) EXCEPT !.kind = "array"] }

-----------------------------------------------------------------------------
(* Requests *)

Call(op, arg, ok) == [op |-> op, arg |-> arg, ok |-> ok]

\* A request slot with no request in it.  Of a request in a slot: pc is the
\* remote call it is suspended at; body the request body; handler the
\* handler the webhook dispatched to; fetched / fetched_account the answers
\* of get_entitlement / get_account; approved the value of
\* is_account_approved; calls the procurement, email, Slack and Pub/Sub calls
\* made so far in order; published the payloads handed to publisher.publish;
\* from_env what settings.from_env(product_name) did ("not_run", "ok",
\* "raised"); raised whether an exception left the handler; status the
\* HTTP status answered; prior the requests that had been answered when
\* this one arrived.
Fresh ==
    [pc |-> "idle", body |-> NoBody, handler |-> "none", event_type |-> "",
     fetched |-> NoEntitlement, from_env |-> "not_run", account_seen |-> FALSE,
     fetched_account |-> NoAccount, approved |-> FALSE,
     subject |-> "", calls |-> <<>>, published |-> <<>>,
     raised |-> FALSE, status |-> 0, prior |-> {}]

\* api.py:465, the handler returned: acknowledge.
WebhookReturn(rq) == [rq EXCEPT !.pc = "done", !.status = 200]

\* A webhook that let the exception through: Flask would answer 500.
WebhookExcept_unhandled(rq) == [rq EXCEPT !.pc = "done", !.status = 500]

\* api.py:467-474, the outer "except Exception": acknowledge all the same.
WebhookExcept(rq) == [rq EXCEPT !.pc = "done", !.status = 200]

\* The handler returns normally to the webhook.
Return(rq) == WebhookReturn(rq)

\* An exception leaves the handler and reaches the webhook.
Raise(rq) == WebhookExcept([rq EXCEPT !.raised = TRUE])

-----------------------------------------------------------------------------
(* The procurement client and the approval evaluator *)

\* procurement_api.py:83-108.  The id is what follows the prefix
\* providers/<project_id>/accounts/; a name without the prefix gives its
\* last segment.
get_account_id(name) ==
    IF name = <<>> THEN <<>>
    ELSE IF Len(name) >= 3 /\ SubSeq(name, 1, 3) = <<"providers", project_id, "accounts">>
         THEN SubSeq(name, 4, Len(name))
    ELSE <<name[Len(name)]>>

\* procurement_api.py:126-158, the answer of a get_account that does not
\* fail: None for an empty id and for a 404, else the remote account.
get_account(account_id) ==
    IF account_id = <<>> THEN NoAccount
    ELSE IF account_id = AccountId THEN account
    ELSE NoAccount

\* procurement_api.py:316-348, the answer of a get_entitlement that does
\* not fail.
get_entitlement(entitlement_id) ==
    IF entitlement_id = "" THEN NoEntitlement
    ELSE IF entitlement_id = EntitlementId THEN entitlement
    ELSE NoEntitlement

\* The first approval named "signup" (procurement_api.py:550-554,
\* account.py:49-54), as a sequence of zero or one approvals.
RECURSIVE signup_approval(_)
signup_approval(approvals) ==
    IF approvals = <<>> THEN <<>>
    ELSE IF Head(approvals).name = "signup" THEN <<Head(approvals)>>
    ELSE signup_approval(Tail(approvals))

\* An evaluator that lets any approval named "signup" decide.
is_account_approved_any_signup(acct) ==
    /\ acct.found
    /\ \E i \in 1..Len(acct.approvals) :
          acct.approvals[i].name = "signup" /\ acct.approvals[i].state = "APPROVED"

\* procurement_api.py:532-573.
is_account_approved(acct) ==
    IF ~acct.found THEN FALSE
    ELSE IF ~acct.has_approvals \/ acct.approvals = <<>> THEN FALSE
    ELSE LET approval == signup_approval(acct.approvals) IN
         IF approval = <<>> THEN FALSE
         ELSE IF approval[1].state = "PENDING" THEN FALSE
         ELSE IF approval[1].state = "APPROVED" THEN TRUE
         ELSE FALSE

\* procurement_api.py:354-383, what a successful approve does at the
\* procurement service: a pending activation becomes active, and approving
\* anything else changes nothing.
approve_entitlement(ent) ==
    IF ent.found /\ ent.state = "ENTITLEMENT_ACTIVATION_REQUESTED"
    THEN [ent EXCEPT !.state = "ENTITLEMENT_ACTIVE"]
    ELSE ent

\* procurement_api.py:434-480, what a successful plan-change approval does
\* at the procurement service.
approve_entitlement_plan_change(ent, new_pending_plan) ==
    IF ent.found /\ ent.state = "ENTITLEMENT_PENDING_PLAN_CHANGE_APPROVAL"
       /\ ent.newPendingPlan = new_pending_plan
    THEN [ent EXCEPT !.state = "ENTITLEMENT_ACTIVE", !.newPendingPlan = Absent]
    ELSE ent

-----------------------------------------------------------------------------
(* handle_entitlement, entitlement.py:118-353 *)

\* entitlement.py:258-264, after the email of the creation-request row.
after_email(rq) ==
    IF Truthy(product_settings.slack_webhook)
    THEN [rq EXCEPT !.pc = "send_slack_message"]
    ELSE Return(rq)

\* entitlement.py:237-256, after the approval of the creation-request row.
after_approve(rq) ==
    IF product_settings.email_recipients # <<>>
    THEN [rq EXCEPT !.pc = "send_email",
                    !.subject = "New Entitlement Creation Request"]
    ELSE after_email(rq)

\* A row that drops its change event.
publish_change_dropped(rq) == Return(rq)

\* entitlement.py:268-271, 287-290, 299-302: publish when a topic is
\* configured and a publisher was handed in.
publish_change(rq) ==
    IF Truthy(product_settings.event_topic) /\ publisher
    THEN [rq EXCEPT !.pc = "notify"]
    ELSE Return(rq)

\* Rows that all publish "create".
change_event_always_create(event_type) == "create"

\* The change event of a row, entitlement.py:270, 289, 301.
change_event(event_type) ==
    CASE event_type = "ENTITLEMENT_ACTIVE" -> "create"
      [] event_type = "ENTITLEMENT_PLAN_CHANGED" -> "upgrade"
      [] event_type = "ENTITLEMENT_CANCELLED" -> "destroy"
      [] OTHER -> "none"

\* A chain whose creation-request row never approves.
dispatch_skip_auto_approve(rq, event_type, entitlement_state) ==
    IF event_type = "ENTITLEMENT_CREATION_REQUESTED"
       /\ entitlement_state = "ENTITLEMENT_ACTIVATION_REQUESTED"
    THEN after_approve(rq)
    ELSE Return(rq)

\* A chain that publishes "create" on ENTITLEMENT_ACTIVE whatever the state.
dispatch_ignoring_state(rq, event_type, entitlement_state) ==
    IF event_type = "ENTITLEMENT_ACTIVE"
    THEN publish_change(rq)
    ELSE Return(rq)

\* A chain whose plan-change row approves only under auto_approve_entitlements.
dispatch_plan_change_gated(rq, event_type, entitlement_state) ==
    IF event_type = "ENTITLEMENT_PLAN_CHANGE_REQUESTED"
       /\ entitlement_state = "ENTITLEMENT_PENDING_PLAN_CHANGE_APPROVAL"
       /\ rq.fetched.newPendingPlan # Absent
       /\ product_settings.auto_approve_entitlements
    THEN [rq EXCEPT !.pc = "approve_entitlement_plan_change"]
    ELSE Return(rq)

\* entitlement.py:228-353, the chain on (event_type, entitlement_state) up
\* to the first remote call of the matched row.
dispatch(rq, event_type, entitlement_state) ==
    IF event_type = "ENTITLEMENT_CREATION_REQUESTED" THEN
        IF entitlement_state = "ENTITLEMENT_ACTIVATION_REQUESTED" THEN
            IF product_settings.auto_approve_entitlements
            THEN [rq EXCEPT !.pc = "approve_entitlement"]
            ELSE after_approve(rq)
        ELSE Return(rq)
    ELSE IF event_type = "ENTITLEMENT_ACTIVE" THEN
        IF entitlement_state = "ENTITLEMENT_ACTIVE"
        THEN publish_change(rq)
        ELSE Return(rq)
    ELSE IF event_type = "ENTITLEMENT_PLAN_CHANGE_REQUESTED" THEN
        IF entitlement_state = "ENTITLEMENT_PENDING_PLAN_CHANGE_APPROVAL" THEN
            IF rq.fetched.newPendingPlan # Absent
            THEN [rq EXCEPT !.pc = "approve_entitlement_plan_change"]
            ELSE Return(rq)
        ELSE Return(rq)
    ELSE IF event_type = "ENTITLEMENT_PLAN_CHANGED" THEN
        IF entitlement_state = "ENTITLEMENT_ACTIVE"
        THEN publish_change(rq)
        ELSE Return(rq)
    ELSE IF event_type = "ENTITLEMENT_PLAN_CHANGE_CANCELLED" THEN Return(rq)
    ELSE IF event_type = "ENTITLEMENT_CANCELLED" THEN
        IF entitlement_state = "ENTITLEMENT_CANCELLED"
        THEN publish_change(rq)
        ELSE Return(rq)
    ELSE IF event_type = "ENTITLEMENT_PENDING_CANCELLATION" THEN Return(rq)
    ELSE IF event_type = "ENTITLEMENT_CANCELLATION_REVERTED" THEN Return(rq)
    ELSE IF event_type = "ENTITLEMENT_DELETED" THEN Return(rq)
    ELSE IF event_type = "ENTITLEMENT_OFFER_ACCEPTED" THEN
        IF entitlement_state = "ENTITLEMENT_ACTIVATION_REQUESTED" THEN
            IF product_settings.email_recipients # <<>>
            THEN [rq EXCEPT !.pc = "send_email",
                            !.subject = "New Entitlement Offer Accepted"]
            ELSE Return(rq)
        ELSE Return(rq)
    ELSE Return(rq)

\* entitlement.py:136-147, the input validation, up to get_entitlement.
handle_entitlement(rq, event, event_type) ==
    LET r1 == [rq EXCEPT !.handler = "handle_entitlement",
                         !.event_type = event_type] IN
    IF event = NoId THEN Return(r1)
    ELSE IF event_type = "" THEN Return(r1)
    ELSE [r1 EXCEPT !.pc = "get_entitlement"]

\* A handler that goes on to the account whatever get_entitlement answered.
entitlement_fetched_unchecked(rq, ent, env_ok) ==
    [rq EXCEPT !.calls = Append(@, Call("get_entitlement", EntitlementId, TRUE)),
               !.pc = "get_account", !.fetched = ent]

\* entitlement.py:148-199, from the answer of get_entitlement up to
\* get_account.  env_ok: settings.from_env(product_name) did not raise.
entitlement_fetched(rq, ent, env_ok) ==
    LET r1 == [rq EXCEPT !.calls = Append(@, Call("get_entitlement", EntitlementId, TRUE))]
        r2 == [r1 EXCEPT !.from_env = IF env_ok THEN "ok" ELSE "raised"]
    IN
    IF ~ent.found THEN Return(r1)
    ELSE IF ent.product = <<Absent>> THEN Return(r1)
    ELSE IF ~env_ok THEN Return(r2)
    ELSE IF ent.account = <<Absent>> THEN Return(r2)
    ELSE [r2 EXCEPT !.pc = "get_account", !.fetched = ent]

\* A handler without the account-approval gate.
account_gate_open(rq, acct) ==
    LET r1 == [rq EXCEPT !.calls = Append(@, Call("get_account", "", TRUE)),
                         !.account_seen = TRUE,
                         !.fetched_account = acct,
                         !.approved = is_account_approved(acct)] IN
    IF rq.fetched.state = Absent THEN Return(r1)
    ELSE dispatch(r1, rq.event_type, rq.fetched.state)

\* A handler that takes the state the message carries, when it carries one.
account_fetched_trusting_payload(rq, acct) ==
    LET r1 == [rq EXCEPT !.calls = Append(@, Call("get_account", "", TRUE)),
                         !.account_seen = TRUE,
                         !.fetched_account = acct,
                         !.approved = is_account_approved(acct)] IN
    IF ~is_account_approved(acct) THEN Return(r1)
    ELSE IF rq.body.embedded # Absent THEN dispatch(r1, rq.event_type, rq.body.embedded)
    ELSE IF rq.fetched.state = Absent THEN Return(r1)
    ELSE dispatch(r1, rq.event_type, rq.fetched.state)

\* entitlement.py:200-226, from the answer of get_account to the dispatch.
account_fetched(rq, acct) ==
    LET r1 == [rq EXCEPT !.calls = Append(@, Call("get_account", "", TRUE)),
                         !.account_seen = TRUE,
                         !.fetched_account = acct,
                         !.approved = is_account_approved(acct)] IN
    IF ~is_account_approved(acct) THEN Return(r1)
    ELSE IF rq.fetched.state = Absent THEN Return(r1)
    ELSE dispatch(r1, rq.event_type, rq.fetched.state)

\* A handler that sends the creation-request email first and approves last.
entitlement_approved_after_email(rq) ==
    Return([rq EXCEPT !.calls =
        Append(Append(@, Call("send_email", "New Entitlement Creation Request", TRUE)),
               Call("approve_entitlement", EntitlementId, TRUE))])

\* A row that publishes the change right after approving the entitlement.
entitlement_approved_then_published(rq) ==
    [rq EXCEPT !.calls = Append(@, Call("approve_entitlement", EntitlementId, TRUE)),
               !.pc = "notify"]

\* entitlement.py:232-237, approve_entitlement returned.
entitlement_approved(rq) ==
    after_approve([rq EXCEPT !.calls =
        Append(@, Call("approve_entitlement", EntitlementId, TRUE))])

\* A row that goes on to publish the change once the plan is approved.
plan_change_approved_publishing(rq, plan) ==
    [rq EXCEPT !.calls = Append(@, Call("approve_entitlement_plan_change", plan, TRUE)),
               !.pc = "notify"]

\* entitlement.py:278-283, approve_entitlement_plan_change returned.
plan_change_approved(rq, plan) ==
    Return([rq EXCEPT !.calls =
        Append(@, Call("approve_entitlement_plan_change", plan, TRUE))])

\* A handler that lets a failed email end the invocation with an exception.
email_sent_escalating(rq, ok) ==
    LET r1 == [rq EXCEPT !.calls = Append(@, Call("send_email", rq.subject, ok))] IN
    IF ~ok THEN Raise(r1)
    ELSE IF rq.subject = "New Entitlement Creation Request"
    THEN after_email(r1)
    ELSE Return(r1)

\* A handler whose every email is followed by the Slack message.
email_sent_then_slack(rq, ok) ==
    after_email([rq EXCEPT !.calls = Append(@, Call("send_email", rq.subject, ok))])

\* entitlement.py:239-264, 324-342 and account.py:74-101: send_email came
\* back (ok: it returned True); only the creation-request row goes on.
email_sent(rq, ok) ==
    LET r1 == [rq EXCEPT !.calls = Append(@, Call("send_email", rq.subject, ok))] IN
    IF rq.subject = "New Entitlement Creation Request"
    THEN after_email(r1)
    ELSE Return(r1)

\* entitlement.py:261-264, send_slack_message came back.
slack_sent(rq, ok) ==
    Return([rq EXCEPT !.calls = Append(@, Call("send_slack_message", "", ok))])

\* entitlement.py:34, the data published: {"event": type, "entitlement":
\* entitlement}, the entitlement being the get_entitlement answer with its
\* id added (entitlement.py:157).
change_data(type, ent, entitlement_id) ==
    [event |-> type, entitlement |-> ([id |-> entitlement_id] @@ ent)]

\* entitlement.py:15-44, notify: with a topic, one publisher.publish of
\* {event, entitlement} whose exception (ok = FALSE) is caught and logged;
\* without one, a warning.
notify(rq, type, ok) ==
    IF Truthy(product_settings.event_topic)
    THEN Return([rq EXCEPT
                  !.calls = Append(@, Call("publish", type, ok)),
                  !.published = Append(@, change_data(type, rq.fetched,
                                                      rq.body.entitlement))])
    ELSE Return(rq)

\* A handler that logs a failed approve_entitlement and goes on to notify.
procurement_failed_logged(rq, op, arg) ==
    LET r1 == [rq EXCEPT !.calls = Append(@, Call(op, arg, FALSE))] IN
    IF op = "approve_entitlement" THEN after_approve(r1) ELSE Raise(r1)

\* A procurement call that still fails after the client's retries
\* (procurement_api.py:122-124 and alike): the exception leaves the handler.
procurement_failed(rq, op, arg) ==
    Raise([rq EXCEPT !.calls = Append(@, Call(op, arg, FALSE))])

-----------------------------------------------------------------------------
(* handle_account, account.py:10-108 *)

\* account.py:25-33, the input validation, up to get_account.
handle_account(rq, account_msg) ==
    LET r1 == [rq EXCEPT !.handler = "handle_account"] IN
    IF account_msg = NoId THEN Return(r1)
    ELSE [r1 EXCEPT !.pc = "get_account"]

\* A handler that approves the account it was notified of.
account_notified_approving(rq, acct) ==
    Return([rq EXCEPT !.calls = Append(Append(@, Call("get_account", "", TRUE)),
                                       Call("approve_account", "", TRUE)),
                      !.account_seen = TRUE,
                      !.fetched_account = acct])

\* account.py:34-108, from the answer of get_account up to send_email.
\* approval["state"] on an approval without "state" is a KeyError.
account_notified(rq, acct) ==
    LET r1 == [rq EXCEPT !.calls = Append(@, Call("get_account", "", TRUE)),
                         !.account_seen = TRUE,
                         !.fetched_account = acct]
        approval == IF acct.has_approvals THEN signup_approval(acct.approvals)
                    ELSE <<>>
    IN
    IF ~acct.found THEN Return(r1)
    ELSE IF approval = <<>> THEN Return(r1)
    ELSE IF settings.email_recipients = <<>> THEN Return(r1)
    ELSE IF approval[1].state = Absent THEN Raise(r1)
    ELSE IF approval[1].state = "PENDING"
         THEN [r1 EXCEPT !.pc = "send_email",
                         !.subject = "New Account Pending Approval"]
    ELSE IF approval[1].state = "APPROVED"
         THEN [r1 EXCEPT !.pc = "send_email",
                         !.subject = "New Account Approved"]
    ELSE Return(r1)

-----------------------------------------------------------------------------
(* handle_subscription_message, api.py:391-474 *)

\* api.py:424, base64.b64decode(message_data): characters outside the
\* alphabet are discarded before the padding check (validate defaults to
\* False), so only a wrong padding raises.
b64decode_ok(body) == body.b64 # "bad_padding"

\* api.py:421-436: b64decode, decode("utf-8"), json.loads.
decodes(body) == b64decode_ok(body) /\ body.utf8 /\ body.json

\* A webhook that looks for "account" first.
handle_subscription_message_account_first(rq, body) ==
    LET r0 == [rq EXCEPT !.body = body] IN
    IF body.envelope # "ok" THEN WebhookReturn(r0)
    ELSE IF ~decodes(body) THEN WebhookReturn(r0)
    ELSE IF body.kind # "object" THEN WebhookExcept(r0)
    ELSE IF body.account # Absent THEN handle_account(r0, body.account)
    ELSE IF body.entitlement # Absent /\ body.eventType # Absent
    THEN handle_entitlement(r0, body.entitlement, body.eventType)
    ELSE WebhookReturn(r0)

\* api.py:399-465, up to the first remote call of the handler.  A decoded
\* number has no "in"; an array has no members to index by name: both are a
\* TypeError, caught at api.py:467.
handle_subscription_message(rq, body) ==
    LET r0 == [rq EXCEPT !.body = body] IN
    IF body.envelope = "unparsable" THEN WebhookExcept(r0)
    ELSE IF body.envelope = "empty" THEN WebhookReturn(r0)
    ELSE IF body.envelope = "no_message" THEN WebhookReturn(r0)
    ELSE IF body.envelope = "no_data" THEN WebhookReturn(r0)
    ELSE IF ~decodes(body) THEN WebhookReturn(r0)
    ELSE IF body.kind = "number" THEN WebhookExcept(r0)
    ELSE IF body.entitlement # Absent /\ body.eventType # Absent THEN
        IF body.kind # "object" THEN WebhookExcept(r0)
        ELSE handle_entitlement(r0, body.entitlement, body.eventType)
    ELSE IF body.account # Absent THEN
        IF body.kind # "object" THEN WebhookExcept(r0)
        ELSE handle_account(r0, body.account)
    ELSE WebhookReturn(r0)

-----------------------------------------------------------------------------
(* Steps *)

Config == <<settings, product_settings, delivery>>

\* What the webhook does not touch.
Elsewhere == <<session, web, client, limiter>>

\* The slot of a webhook that serves one request at a time.
Worker == CHOOSE r \in Reqs : \A o \in Reqs : r <= o

\* A push request arrives and runs up to its first remote call.
Receive(r, body) ==
    /\ req[r].pc = "idle"
    /\ req' = [req EXCEPT ![r] =
                 handle_subscription_message(
                     [Fresh EXCEPT !.prior = {o \in Reqs : req[o].pc = "done"}], body)]
    /\ UNCHANGED <<Config, Elsewhere, entitlement, account>>

\* entitlement.py:148 and the code up to the next remote call.
GetEntitlement(r) ==
    /\ req[r].pc = "get_entitlement"
    /\ req[r].handler = "handle_entitlement"
    /\ \E ok \in BOOLEAN, env_ok \in BOOLEAN :
          req' = [req EXCEPT ![r] =
                    IF ok
                    THEN entitlement_fetched(@, get_entitlement(@.body.entitlement), env_ok)
                    ELSE procurement_failed(@, "get_entitlement", EntitlementId)]
    /\ UNCHANGED <<Config, Elsewhere, entitlement, account>>

\* entitlement.py:199-200 and the code up to the next remote call.
GetAccount(r) ==
    /\ req[r].pc = "get_account"
    /\ req[r].handler = "handle_entitlement"
    /\ \E ok \in BOOLEAN :
          req' = [req EXCEPT ![r] =
                    IF ok
                    THEN account_fetched(@, get_account(get_account_id(@.fetched.account)))
                    ELSE procurement_failed(@, "get_account", "")]
    /\ UNCHANGED <<Config, Elsewhere, entitlement, account>>

\* entitlement.py:232.
ApproveEntitlement(r) ==
    /\ req[r].pc = "approve_entitlement"
    /\ \E ok \in BOOLEAN :
          /\ req' = [req EXCEPT ![r] =
                       IF ok
                       THEN entitlement_approved(@)
                       ELSE procurement_failed(@, "approve_entitlement", EntitlementId)]
          /\ entitlement' = IF ok THEN approve_entitlement(entitlement) ELSE entitlement
    /\ UNCHANGED <<Config, Elsewhere, account>>

\* entitlement.py:278-283.  An empty plan is a ValueError before any remote
\* request (procurement_api.py:451-453).
ApprovePlanChange(r) ==
    /\ req[r].pc = "approve_entitlement_plan_change"
    /\ LET plan == req[r].fetched.newPendingPlan IN
       \E ok \in BOOLEAN :
          /\ req' = [req EXCEPT ![r] =
                       IF ok /\ plan # ""
                       THEN plan_change_approved(@, plan)
                       ELSE procurement_failed(@, "approve_entitlement_plan_change", plan)]
          /\ entitlement' = IF ok /\ plan # ""
                            THEN approve_entitlement_plan_change(entitlement, plan)
                            ELSE entitlement
    /\ UNCHANGED <<Config, Elsewhere, account>>

\* entitlement.py:239-256, 324-341 and account.py:74-101: send_email
\* reports a failure by returning False (middleware.py:72-181).
SendEmail(r) ==
    /\ req[r].pc = "send_email"
    /\ \E ok \in BOOLEAN :
          req' = [req EXCEPT ![r] = email_sent(@, ok)]
    /\ UNCHANGED <<Config, Elsewhere, entitlement, account>>

\* entitlement.py:259-264: send_slack_message returns False on a non-200
\* answer and on a RequestException (entitlement.py:47-114).
SendSlack(r) ==
    /\ req[r].pc = "send_slack_message"
    /\ \E ok \in BOOLEAN :
          req' = [req EXCEPT ![r] = slack_sent(@, ok)]
    /\ UNCHANGED <<Config, Elsewhere, entitlement, account>>

\* entitlement.py:15-44, notify: one publisher.publish, whose exception is
\* caught and logged.
Notify(r) ==
    /\ req[r].pc = "notify"
    /\ \E ok \in BOOLEAN :
          req' = [req EXCEPT ![r] = notify(@, change_event(@.event_type), ok)]
    /\ UNCHANGED <<Config, Elsewhere, entitlement, account>>

\* account.py:34 and the code up to send_email.
AccountGetAccount(r) ==
    /\ req[r].pc = "get_account"
    /\ req[r].handler = "handle_account"
    /\ \E ok \in BOOLEAN :
          req' = [req EXCEPT ![r] =
                    IF ok
                    THEN account_notified(@, get_account(<<@.body.account>>))
                    ELSE procurement_failed(@, "get_account", "")]
    /\ UNCHANGED <<Config, Elsewhere, entitlement, account>>

\* The response has been sent; the slot is free again.
Respond(r) ==
    /\ req[r].pc = "done"
    /\ req' = [req EXCEPT ![r] = Fresh]
    /\ UNCHANGED <<Config, Elsewhere, entitlement, account>>

-----------------------------------------------------------------------------
(* Marketplace tokens and verify_marketplace_jwt, api.py:477-502 *)

\* api.py:51, the only issuer accepted, which is also where the
\* certificates are fetched from.
GOOGLE_CERT_URL ==
    "https://www.googleapis.com/robot/v1/metadata/x509/cloud-commerce-partner@system.gserviceaccount.com"

\* settings.AUDIENCE, and the key ids of the certificates at GOOGLE_CERT_URL.
AUDIENCE == "relay.example.com"
CertKeyIds == { "k1" }

\* An encoded JWT, described by what the verifier finds in it: wellformed
\* (three base64url segments of JSON), the kid of its header, its iss, aud
\* and sub claims (sub Absent: no such claim), whether its signature is the
\* one of the key named by kid, and whether its exp is still ahead.
Token(iss, kid, sig, aud, exp, sub) ==
    [present |-> TRUE, wellformed |-> TRUE, iss |-> iss, kid |-> kid,
     signed |-> sig, aud |-> aud, unexpired |-> exp, sub |-> sub]

ValidToken == Token(GOOGLE_CERT_URL, "k1", TRUE, AUDIENCE, TRUE, "a1")

\* No x-gcp-marketplace-token in the form or the query (or an empty one).
NoToken == [ValidToken EXCEPT !.present = FALSE]

\* The valid token, the tokens with one defect, and a token forged by
\* someone without the key (own issuer, own key id, own signature).
Tokens ==
    { ValidToken,
      [ValidToken EXCEPT !.wellformed = FALSE],
      [ValidToken EXCEPT !.iss = "https://evil.example/certs"],
      [ValidToken EXCEPT !.kid = "k9"],
      [ValidToken EXCEPT !.signed = FALSE],
      [ValidToken EXCEPT !.aud = "other.example.com"],
      [ValidToken EXCEPT !.unexpired = FALSE],
      [ValidToken EXCEPT !.sub = ""],
      [ValidToken EXCEPT !.sub = Absent],
      Token("https://evil.example/certs", "k9", FALSE, AUDIENCE, TRUE, "a1") }

\* The claims a verification returns, and their absence.
Claims(sub) == [present |-> TRUE, sub |-> sub]
NoClaims == [present |-> FALSE, sub |-> Absent]

\* A token with a wrong issuer, an unknown key id, a tampered signature, a
\* wrong audience or an empty subject.
BadToken(t) ==
    /\ t.present
    /\ \/ t.iss # GOOGLE_CERT_URL
       \/ t.kid \notin CertKeyIds
       \/ ~t.signed
       \/ t.aud # AUDIENCE
       \/ t.sub \in {"", Absent}

\* A verifier that trusts the claims of any well-formed token.
verify_marketplace_jwt_unverified(encoded_jwt, certs_ok) ==
    IF encoded_jwt.wellformed
    THEN [ok |-> TRUE, claims |-> Claims(encoded_jwt.sub), steps |-> <<>>]
    ELSE [ok |-> FALSE, claims |-> NoClaims, steps |-> <<>>]

\* A verifier that fetches the certificates from the token's issuer before
\* it compares the issuer, and verifies the signature before it looks for
\* the key.
verify_marketplace_jwt_fetch_first(encoded_jwt, certs_ok) ==
    LET url == encoded_jwt.iss
        fetch == <<Call("requests.get", url, certs_ok)>>
        decode == fetch \o <<Call("jwt.decode", encoded_jwt.kid, FALSE)>>
    IN
    IF ~encoded_jwt.wellformed
    THEN [ok |-> FALSE, claims |-> NoClaims, steps |-> <<>>]
    ELSE IF ~certs_ok
    THEN [ok |-> FALSE, claims |-> NoClaims, steps |-> fetch]
    ELSE IF /\ url = GOOGLE_CERT_URL /\ encoded_jwt.kid \in CertKeyIds
            /\ encoded_jwt.signed /\ encoded_jwt.unexpired
            /\ encoded_jwt.aud = AUDIENCE /\ Truthy(encoded_jwt.sub)
            /\ encoded_jwt.sub # Absent
    THEN [ok |-> TRUE, claims |-> Claims(encoded_jwt.sub),
          steps |-> fetch \o <<Call("jwt.decode", encoded_jwt.kid, TRUE)>>]
    ELSE [ok |-> FALSE, claims |-> NoClaims, steps |-> decode]

\* api.py:477-502.  ok = FALSE: the function raised.  certs_ok: the
\* certificates could be fetched (api.py:487).  steps: the network call
\* made (requests.get of url, api.py:487) and the verification of the
\* signature with the key found (jwt.decode, api.py:495-497; ok = FALSE: it
\* raised), in the order made.
verify_marketplace_jwt(encoded_jwt, certs_ok) ==
    LET url == encoded_jwt.iss
        fetch == <<Call("requests.get", url, certs_ok)>>
        decoded == /\ encoded_jwt.signed /\ encoded_jwt.unexpired
                   /\ encoded_jwt.aud = AUDIENCE
        decode == fetch \o <<Call("jwt.decode", encoded_jwt.kid, decoded)>>
        raise(steps) == [ok |-> FALSE, claims |-> NoClaims, steps |-> steps]
    IN
    IF ~encoded_jwt.wellformed THEN raise(<<>>)
    ELSE IF url # GOOGLE_CERT_URL THEN raise(<<>>)
    ELSE IF ~certs_ok THEN raise(fetch)
    ELSE IF encoded_jwt.kid \notin CertKeyIds THEN raise(fetch)
    ELSE IF ~encoded_jwt.signed THEN raise(decode)
    ELSE IF ~encoded_jwt.unexpired THEN raise(decode)
    ELSE IF encoded_jwt.aud # AUDIENCE THEN raise(decode)
    ELSE IF ~Truthy(encoded_jwt.sub) \/ encoded_jwt.sub = Absent THEN raise(decode)
    ELSE [ok |-> TRUE, claims |-> Claims(encoded_jwt.sub), steps |-> decode]

-----------------------------------------------------------------------------
(* The session and the answers of the browser and control routes *)

\* session["jwt_claims"]; NoClaims when the key is not in the session.
\* verified: the subjects of the claims verify_marketplace_jwt has returned
\* to the requests of the session so far (kept for the record, no part of
\* the cookie).
EmptySession == [jwt_claims |-> NoClaims, verified |-> {}]

\* A new session, and one in which an earlier /signup verified a token.
Sessions == { EmptySession, [jwt_claims |-> Claims("a1"), verified |-> {"a1"}] }

\* api.py:193-195, 522-524: session["jwt_claims"] = decoded_claims, the
\* claims verify_marketplace_jwt returned.
session_store(sess, decoded_claims) ==
    [sess EXCEPT !.jwt_claims = decoded_claims, !.verified = @ \cup {decoded_claims.sub}]

\* A JSON request body, described by what the route finds in it: whether
\* request.json parses it, the kind of the value ("object", "array",
\* "null"), whether it is empty, whether "reason" is among its members
\* (keys of an object, items of an array), and the reason of an object.
Json(kind, empty, has_reason, reason) ==
    [parses |-> TRUE, kind |-> kind, empty |-> empty,
     has_reason |-> has_reason, reason |-> reason]

NoJson == [Json("null", TRUE, FALSE, Absent) EXCEPT !.parses = FALSE]

\* The answer to the last request: its route, the HTTP status, what the
\* request carried (token, companyName form, JSON body, the id of its path,
\* the state of its query), the claims of the session it arrived with,
\* whether the token went through verify_marketplace_jwt ("not_run", "ok",
\* "raised") and the steps the verification made, the calls made for the
\* request, the filter a list_entitlements call sent and the names it
\* listed.
NoResponse ==
    [route |-> "none", status |-> 0, token |-> NoToken, form |-> FALSE,
     json |-> NoJson, id |-> "", state |-> Absent,
     arrived_with |-> NoClaims, verify |-> "not_run", verification |-> <<>>,
     calls |-> <<>>, filter |-> None, listed |-> <<>>]

Request(route) ==
    [NoResponse EXCEPT !.route = route, !.arrived_with = session.jwt_claims]

-----------------------------------------------------------------------------
(* The procurement client as the browser and control routes use it *)

EntitlementName == <<"providers", project_id, "entitlements", EntitlementId>>

\* procurement_api.py:288-310: the last segment of the name.
get_entitlement_id(name) == IF name = <<>> THEN "" ELSE name[Len(name)]

\* " ".join(parts)
RECURSIVE join(_, _)
join(sep, parts) ==
    IF parts = <<>> THEN ""
    ELSE IF Len(parts) = 1 THEN parts[1]
    ELSE parts[1] \o sep \o join(sep, Tail(parts))

\* A filter whose parts are joined without a separator.
filter_str_unseparated(state, account_id) ==
    (IF Truthy(state) THEN "state=" \o state ELSE "")
    \o (IF Truthy(account_id) THEN "account=" \o account_id ELSE "")

\* procurement_api.py:501-510, the filter list_entitlements sends (None: no
\* filter).
filter_str(state, account_id) ==
    LET state_part == IF Truthy(state) THEN <<"state=" \o state>> ELSE <<>>
        account_part == IF Truthy(account_id) THEN <<"account=" \o account_id>> ELSE <<>>
        filter_parts == state_part \o account_part
    IN IF filter_parts # <<>> THEN join(" ", filter_parts) ELSE None

\* procurement_api.py:486-530, the answer of a list_entitlements that does
\* not fail: the names of the service's entitlements in the given state and
\* of the given account.
list_entitlements(state, account_id) ==
    IF /\ entitlement.found
       /\ Truthy(state) => entitlement.state = "ENTITLEMENT_" \o state
       /\ Truthy(account_id) => get_account_id(entitlement.account) = <<account_id>>
    THEN <<EntitlementName>>
    ELSE <<>>

\* procurement_api.py:164-197, what a successful approve_account does at the
\* procurement service: the signup approval becomes APPROVED.
approve_account(acct) ==
    [acct EXCEPT !.approvals =
        [i \in 1..Len(@) |->
            IF @[i].name = "signup" THEN Approval("signup", "APPROVED") ELSE @[i]]]

\* procurement_api.py:203-232, what a successful reset_account does at the
\* procurement service: the approvals are pending again.
reset_account(acct) ==
    [acct EXCEPT !.approvals = [i \in 1..Len(@) |-> Approval(@[i].name, "PENDING")]]

\* procurement_api.py:389-428, what a successful reject_entitlement does at
\* the procurement service: a pending activation is cancelled.
reject_entitlement(ent) ==
    IF ent.found /\ ent.state = "ENTITLEMENT_ACTIVATION_REQUESTED"
    THEN [ent EXCEPT !.state = "ENTITLEMENT_CANCELLED"]
    ELSE ent

-----------------------------------------------------------------------------
(* activate, api.py:174-255, and register, api.py:506-577 *)

\* What one request leaves behind.
Outcome(sess, resp, acct, ent) ==
    [session |-> sess, web |-> resp, account |-> acct, entitlement |-> ent]

\* Another entitlement of the same account, pending activation.
OtherEntitlementName == <<"providers", project_id, "entitlements", "e0">>

\* The remote calls of the flows either go through or fail for good.
\* others: whether the service lists the account's other pending
\* entitlement, and if so before or after the entitlement e1.
Net == [certs : BOOLEAN, approve_account : BOOLEAN, list_entitlements : BOOLEAN,
        approve_entitlement : BOOLEAN, send_email : BOOLEAN,
        others : {"none", "before", "after"}]

\* The calls activate makes, and those register makes.
ActivateNet ==
    { net \in Net : net.send_email /\ (~net.list_entitlements => net.others = "none") }
RegisterNet ==
    { net \in Net : /\ net.approve_account /\ net.list_entitlements
                    /\ net.approve_entitlement /\ net.others = "none" }

\* A "finally" that leaves the claims in the session.
session_pop_skipped(sess) == sess

\* api.py:253-255, session.pop("jwt_claims", None).
session_pop(sess) == [sess EXCEPT !.jwt_claims = NoClaims]

\* api.py:158-160, the names procurement_api.list_entitlements(account_id=
\* account_id) lists, in the order of the answer.
pending_creation_requests(account_id, net) ==
    LET own == list_entitlements("ACTIVATION_REQUESTED", account_id) IN
    CASE net.others = "before" -> <<OtherEntitlementName>> \o own
      [] net.others = "after" -> own \o <<OtherEntitlementName>>
      [] OTHER -> own

\* A lookup that keeps the first entitlement listed.
get_entitlement_id_for_account_first(account_id, net) ==
    LET pcrs == pending_creation_requests(account_id, net) IN
    IF ~net.list_entitlements THEN None
    ELSE IF pcrs = <<>> THEN None
    ELSE get_entitlement_id(pcrs[1])

\* api.py:152-171: the id of the last entitlement listed for the account in
\* state ACTIVATION_REQUESTED, None when there is none or the listing fails.
get_entitlement_id_for_account(account_id, net) ==
    LET pcrs == pending_creation_requests(account_id, net) IN
    IF ~net.list_entitlements THEN None
    ELSE IF pcrs = <<>> THEN None
    ELSE get_entitlement_id(pcrs[Len(pcrs)])

\* An activation that fails when the lookup of the pending entitlement fails.
activate_account_failing_with_lookup(rq, decoded_claims, sess, net) ==
    LET account_id == decoded_claims.sub
        approved == net.approve_account /\ get_account(<<account_id>>).found
        r1 == [rq EXCEPT !.calls = Append(@, Call("approve_account", account_id, approved))]
        entitlement_id == get_entitlement_id_for_account(account_id, net)
        r2 == [r1 EXCEPT !.calls = Append(@, Call("list_entitlements", account_id,
                                                   net.list_entitlements)),
                         !.filter = filter_str("ACTIVATION_REQUESTED", account_id),
                         !.listed = IF net.list_entitlements
                                    THEN pending_creation_requests(account_id, net)
                                    ELSE <<>>]
        r3 == [r2 EXCEPT !.calls = Append(@, Call("approve_entitlement", entitlement_id,
                                                   net.approve_entitlement))]
    IN
    IF ~approved
    THEN Outcome(session_pop(sess), [r1 EXCEPT !.status = 500], account, entitlement)
    ELSE IF ~net.list_entitlements
    THEN Outcome(session_pop(sess), [r2 EXCEPT !.status = 500],
                 approve_account(account), entitlement)
    ELSE IF settings.auto_approve_entitlements /\ Truthy(entitlement_id)
    THEN IF net.approve_entitlement
         THEN Outcome(session_pop(sess), [r3 EXCEPT !.status = 200],
                      approve_account(account),
                      IF entitlement_id = EntitlementId
                      THEN approve_entitlement(entitlement)
                      ELSE entitlement)
         ELSE Outcome(session_pop(sess), [r3 EXCEPT !.status = 500],
                      approve_account(account), entitlement)
    ELSE Outcome(session_pop(sess), [r2 EXCEPT !.status = 200],
                 approve_account(account), entitlement)

\* api.py:217-255, from account_id = decoded_claims["sub"] on: approve the
\* account, then the pending entitlement when auto-approval is on; an
\* exception of either approval is re-raised (HTTP 500); the claims leave
\* the session in every case.
activate_account(rq, decoded_claims, sess, net) ==
    LET account_id == decoded_claims.sub
        approved == net.approve_account /\ get_account(<<account_id>>).found
        r1 == [rq EXCEPT !.calls = Append(@, Call("approve_account", account_id, approved))]
        entitlement_id == get_entitlement_id_for_account(account_id, net)
        r2 == [r1 EXCEPT !.calls = Append(@, Call("list_entitlements", account_id,
                                                   net.list_entitlements)),
                         !.filter = filter_str("ACTIVATION_REQUESTED", account_id),
                         !.listed = IF net.list_entitlements
                                    THEN pending_creation_requests(account_id, net)
                                    ELSE <<>>]
        r3 == [r2 EXCEPT !.calls = Append(@, Call("approve_entitlement", entitlement_id,
                                                   net.approve_entitlement))]
    IN
    IF ~approved
    THEN Outcome(session_pop(sess), [r1 EXCEPT !.status = 500], account, entitlement)
    ELSE IF settings.auto_approve_entitlements /\ Truthy(entitlement_id)
    THEN IF net.approve_entitlement
         THEN Outcome(session_pop(sess), [r3 EXCEPT !.status = 200],
                      approve_account(account),
                      IF entitlement_id = EntitlementId
                      THEN approve_entitlement(entitlement)
                      ELSE entitlement)
         ELSE Outcome(session_pop(sess), [r3 EXCEPT !.status = 500],
                      approve_account(account), entitlement)
    ELSE Outcome(session_pop(sess), [r2 EXCEPT !.status = 200],
                 approve_account(account), entitlement)

\* An activation that reads the subject off the token it was given.
activate_trusting_token(token, net) ==
    LET rq == [Request("activate") EXCEPT !.token = token]
        decoded_claims == session.jwt_claims
    IN
    IF ~decoded_claims.present \/ decoded_claims.sub = Absent
    THEN IF token.present /\ token.wellformed /\ token.sub # Absent
         THEN activate_account(rq, Claims(token.sub),
                               [session EXCEPT !.jwt_claims = Claims(token.sub)], net)
         ELSE Outcome(session, [rq EXCEPT !.status = 401], account, entitlement)
    ELSE activate_account(rq, decoded_claims, session, net)

\* api.py:174-216, up to account_id: the claims of the session, else those
\* of the verified token; HTTP 401 without either.
activate(token, net) ==
    LET rq == [Request("activate") EXCEPT !.token = token]
        decoded_claims == session.jwt_claims
    IN
    IF ~decoded_claims.present \/ decoded_claims.sub = Absent
    THEN IF token.present
         THEN LET v == verify_marketplace_jwt(token, net.certs) IN
              IF v.ok
              THEN activate_account([rq EXCEPT !.verify = "ok",
                                               !.verification = v.steps],
                                    v.claims,
                                    session_store(session, v.claims), net)
              ELSE Outcome(session,
                           [rq EXCEPT !.verify = "raised", !.verification = v.steps,
                                      !.status = 401],
                           account, entitlement)
         ELSE Outcome(session, [rq EXCEPT !.status = 401], account, entitlement)
    ELSE activate_account(rq, decoded_claims, session, net)

\* api.py:506-577.  form: the request has a companyName field.  Without it
\* the token is verified and its claims kept in the session (the signup
\* form is rendered); with it the signup email is sent for the account of
\* the session's claims and the browser is redirected to /activate.  A form
\* arriving without claims in the session ends in an AttributeError (HTTP
\* 500) at decoded_claims.get, api.py:544.
register(token, form, net) ==
    LET rq == [Request("signup") EXCEPT !.token = token, !.form = form]
        decoded_claims == session.jwt_claims
    IN
    IF ~form
    THEN IF ~token.present
         THEN Outcome(session, [rq EXCEPT !.status = 401], account, entitlement)
         ELSE LET v == verify_marketplace_jwt(token, net.certs) IN
              IF v.ok
              THEN Outcome(session_store(session, v.claims),
                           [rq EXCEPT !.verify = "ok", !.verification = v.steps,
                                      !.status = 200],
                           account, entitlement)
              ELSE Outcome(session,
                           [rq EXCEPT !.verify = "raised", !.verification = v.steps,
                                      !.status = 401],
                           account, entitlement)
    ELSE IF ~decoded_claims.present
    THEN Outcome(session, [rq EXCEPT !.status = 500], account, entitlement)
    ELSE Outcome(session,
                 [rq EXCEPT !.status = 302,
                            !.calls = Append(@, Call("send_email", "New Signup Request",
                                net.send_email /\ settings.email_recipients # <<>>))],
                 account, entitlement)

\* One request to a browser or control route, served to its end.
Serve(out) ==
    /\ session' = out.session
    /\ web' = out.web
    /\ account' = out.account
    /\ entitlement' = out.entitlement
    /\ UNCHANGED <<Config, req, client, limiter>>

Activate(token, net) == Serve(activate(token, net))

Register(token, form, net) == Serve(register(token, form, net))

-----------------------------------------------------------------------------
(* The control API, api.py:259-388 *)

\* api.py:54-64, the values of ?state= that index passes on.
entitlement_states ==
    { "CREATION_REQUESTED", "ACTIVE", "PLAN_CHANGE_REQUESTED", "PLAN_CHANGED",
      "PLAN_CHANGE_CANCELLED", "CANCELLED", "PENDING_CANCELLATION",
      "CANCELLATION_REVERTED", "DELETED" }

\* The ids a path can carry (the router gives the routes no empty id).
PathEntitlementIds == { EntitlementId, "e9" }
PathAccountIds == { "a1", "a9" }

\* The bodies of a reject request: unparsable, null, {}, [], {"note": ..},
\* {"reason": "fraud"}, {"reason": ""}, ["note"], ["reason"].
RejectBodies ==
    { NoJson,
      Json("null", TRUE, FALSE, Absent),
      Json("object", TRUE, FALSE, Absent),
      Json("array", TRUE, FALSE, Absent),
      Json("object", FALSE, FALSE, Absent),
      Json("object", FALSE, TRUE, "fraud"),
      Json("object", FALSE, TRUE, ""),
      Json("array", FALSE, FALSE, Absent),
      Json("array", FALSE, TRUE, Absent) }

\* api.py:281-304.  ok: the procurement call went through.
entitlement_approve(entitlement_id, ok) ==
    LET rq == [Request("entitlement_approve") EXCEPT !.id = entitlement_id]
        done == ok /\ get_entitlement(entitlement_id).found
        r1 == [rq EXCEPT !.calls = Append(@, Call("approve_entitlement", entitlement_id, done))]
    IN
    IF entitlement_id = ""
    THEN Outcome(session, [rq EXCEPT !.status = 400], account, entitlement)
    ELSE IF done
    THEN Outcome(session, [r1 EXCEPT !.status = 200], account,
                 approve_entitlement(entitlement))
    ELSE Outcome(session, [r1 EXCEPT !.status = 500], account, entitlement)

\* api.py:307-336.  request.json raises on a body it cannot parse, and
\* msg_json["reason"] on an array is a TypeError: both end in the route's
\* "except Exception" (HTTP 500).
entitlement_reject(entitlement_id, msg_json, ok) ==
    LET rq == [Request("entitlement_reject") EXCEPT !.id = entitlement_id,
                                                    !.json = msg_json]
        done == ok /\ get_entitlement(entitlement_id).found
        r1 == [rq EXCEPT !.calls = Append(@, Call("reject_entitlement", entitlement_id, done))]
    IN
    IF entitlement_id = ""
    THEN Outcome(session, [rq EXCEPT !.status = 400], account, entitlement)
    ELSE IF ~msg_json.parses
    THEN Outcome(session, [rq EXCEPT !.status = 500], account, entitlement)
    ELSE IF msg_json.empty \/ ~msg_json.has_reason
    THEN Outcome(session, [rq EXCEPT !.status = 400], account, entitlement)
    ELSE IF msg_json.kind # "object"
    THEN Outcome(session, [rq EXCEPT !.status = 500], account, entitlement)
    ELSE IF done
    THEN Outcome(session, [r1 EXCEPT !.status = 200], account,
                 reject_entitlement(entitlement))
    ELSE Outcome(session, [r1 EXCEPT !.status = 500], account, entitlement)

\* api.py:339-362.
account_approve(account_id, ok) ==
    LET rq == [Request("account_approve") EXCEPT !.id = account_id]
        done == ok /\ get_account(<<account_id>>).found
        r1 == [rq EXCEPT !.calls = Append(@, Call("approve_account", account_id, done))]
    IN
    IF account_id = ""
    THEN Outcome(session, [rq EXCEPT !.status = 400], account, entitlement)
    ELSE IF done
    THEN Outcome(session, [r1 EXCEPT !.status = 200], approve_account(account),
                 entitlement)
    ELSE Outcome(session, [r1 EXCEPT !.status = 500], account, entitlement)

\* api.py:366-388.
account_reset(account_id, ok) ==
    LET rq == [Request("account_reset") EXCEPT !.id = account_id]
        done == ok /\ get_account(<<account_id>>).found
        r1 == [rq EXCEPT !.calls = Append(@, Call("reset_account", account_id, done))]
    IN
    IF account_id = ""
    THEN Outcome(session, [rq EXCEPT !.status = 400], account, entitlement)
    ELSE IF done
    THEN Outcome(session, [r1 EXCEPT !.status = 200], reset_account(account),
                 entitlement)
    ELSE Outcome(session, [r1 EXCEPT !.status = 500], account, entitlement)

\* An index that answers HTTP 400 to a state it does not list.
index_rejecting(state_arg, ok) ==
    LET state == IF state_arg = Absent THEN "ACTIVATION_REQUESTED" ELSE state_arg
        rq == [Request("index") EXCEPT !.state = state_arg]
    IN
    IF state \notin entitlement_states
    THEN Outcome(session, [rq EXCEPT !.status = 400], account, entitlement)
    ELSE Outcome(session,
                 [rq EXCEPT !.calls = Append(@, Call("list_entitlements", state, ok)),
                            !.filter = filter_str(state, None),
                            !.status = IF ok THEN 200 ELSE 500],
                 account, entitlement)

\* api.py:259-278.  state: the ?state= of the query (Absent: none, so
\* "ACTIVATION_REQUESTED").  A state outside entitlement_states makes the
\* call list_entitlements(), whose state defaults to ACTIVATION_REQUESTED
\* (procurement_api.py:487).
index(state_arg, ok) ==
    LET state == IF state_arg = Absent THEN "ACTIVATION_REQUESTED" ELSE state_arg
        sent == IF state \notin entitlement_states THEN "ACTIVATION_REQUESTED" ELSE state
        rq == [Request("index") EXCEPT
                  !.state = state_arg,
                  !.calls = Append(@, Call("list_entitlements", sent, ok)),
                  !.filter = filter_str(sent, None)]
    IN
    Outcome(session, [rq EXCEPT !.status = IF ok THEN 200 ELSE 500], account, entitlement)

\* api.py:69-105, the page /app: the same choice of the state as index
\* makes, the page rendered (HTTP 200) from the answer, HTTP 500 when the
\* call fails.
entitlements(state_arg, ok) ==
    LET state == IF state_arg = Absent THEN "ACTIVATION_REQUESTED" ELSE state_arg
        sent == IF state \notin entitlement_states THEN "ACTIVATION_REQUESTED" ELSE state
        rq == [Request("entitlements") EXCEPT
                  !.state = state_arg,
                  !.calls = Append(@, Call("list_entitlements", sent, ok)),
                  !.filter = filter_str(sent, None)]
    IN
    Outcome(session, [rq EXCEPT !.status = IF ok THEN 200 ELSE 500], account, entitlement)

\* procurement_api.py:486-530, a list_entitlements call with the arguments
\* given.
client_list_entitlements(state, account_id, ok) ==
    Outcome(session,
            [Request("list_entitlements") EXCEPT
                !.state = state, !.id = account_id,
                !.calls = Append(@, Call("list_entitlements", account_id, ok)),
                !.filter = filter_str(state, account_id)],
            account, entitlement)

EntitlementApprove(entitlement_id, ok) == Serve(entitlement_approve(entitlement_id, ok))

EntitlementReject(entitlement_id, msg_json, ok) ==
    Serve(entitlement_reject(entitlement_id, msg_json, ok))

AccountApprove(account_id, ok) == Serve(account_approve(account_id, ok))

AccountReset(account_id, ok) == Serve(account_reset(account_id, ok))

Index(state, ok) == Serve(index(state, ok))

EntitlementsPage(state, ok) == Serve(entitlements(state, ok))

ListEntitlements(state, account_id, ok) ==
    Serve(client_list_entitlements(state, account_id, ok))

-----------------------------------------------------------------------------
(* One procurement client call under its decorators,                        *)
(* @on_exception(expo, (RateLimitException, ssl.SSLError, HttpError),       *)
(*               max_tries=MAX_RETRIES)                                     *)
(* @limits(calls=15, period=FIFTEEN_MINUTES)                                *)

\* procurement_api.py:24.
MAX_RETRIES == 8

\* procurement_api.py:125 (and the same line above every operation).
RateLimitCalls == 15

\* The decorated operations of ProcurementApi.
ClientOps ==
    { "get_account", "approve_account", "reset_account", "list_accounts",
      "get_entitlement", "approve_entitlement", "reject_entitlement",
      "approve_entitlement_plan_change", "list_entitlements" }

\* The operations that answer None to a 404, procurement_api.py:156-157,
\* 346-347, and to an empty id, procurement_api.py:136-138, 326-328.
GetOps == { "get_account", "get_entitlement" }

\* The operations that raise ValueError on an empty id (or plan),
\* procurement_api.py:174-176, 213-215, 364-366, 400-402, 447-453.
WriteOps ==
    { "approve_account", "reset_account", "approve_entitlement",
      "reject_entitlement", "approve_entitlement_plan_change" }

\* What request.execute() can do: answer, fail with an HttpError (a 404 or
\* another status), fail with ssl.SSLError, or fail with an exception that
\* is none of these (a timeout, a refused connection).
RemoteOutcomes == { "ok", "HttpError", "HttpError404", "SSLError", "OtherError" }

\* The exceptions on_exception retries.
Retried == { "RateLimitException", "SSLError", "HttpError" }

\* A call: pc is "idle", "calling" (between tries), "returned" or "raised";
\* tries the attempts made so far; last the outcome of the last attempt;
\* answer what request.execute() did in the last attempt ("none" when the
\* attempt sent no request); num_calls the limiter's count of the
\* operation's attempts in the current period, kept up to one past the
\* limit.
NoCall ==
    [pc |-> "idle", op |-> "none", has_id |-> TRUE, tries |-> 0,
     last |-> "none", answer |-> "none", num_calls |-> 0]

\* Operations for which a 404 is an HttpError like any other.
operation_raising_404(op, has_id, outcome) ==
    IF ~has_id /\ op \in GetOps THEN "None"
    ELSE IF ~has_id /\ op \in WriteOps THEN "ValueError"
    ELSE IF outcome = "HttpError404" THEN "HttpError"
    ELSE outcome

\* The body of an operation: what one attempt gives when the limiter lets it
\* through.
operation(op, has_id, outcome) ==
    IF ~has_id /\ op \in GetOps THEN "None"
    ELSE IF ~has_id /\ op \in WriteOps THEN "ValueError"
    ELSE IF outcome = "HttpError404"
         THEN IF op \in GetOps THEN "None" ELSE "HttpError"
    ELSE outcome

\* @limits: count the attempt, and raise RateLimitException instead of
\* running the operation once the count is past the limit.
limits(c, outcome) ==
    IF c.num_calls + 1 > RateLimitCalls
    THEN "RateLimitException"
    ELSE operation(c.op, c.has_id, outcome)

\* A retry loop that gives up on nothing.
max_tries_exceeded_never(tries) == FALSE

\* backoff: max_tries_exceeded = (tries == max_tries).
max_tries_exceeded(tries) == tries = MAX_RETRIES

\* @on_exception: one try of the wrapped operation and what the loop does
\* with its outcome: return it, retry a retried exception until max_tries
\* is reached, raise anything else at once.
on_exception(c, outcome) ==
    LET result == limits(c, outcome)
        executed == /\ result # "RateLimitException"
                    /\ c.has_id \/ c.op \notin GetOps \cup WriteOps
        c1 == [c EXCEPT !.tries = @ + 1, !.last = result,
                        !.answer = IF executed THEN outcome ELSE "none",
                        !.num_calls = IF @ > RateLimitCalls THEN @ ELSE @ + 1]
    IN
    IF result \in {"ok", "None"} THEN [c1 EXCEPT !.pc = "returned"]
    ELSE IF result \in Retried /\ ~max_tries_exceeded(c1.tries)
         THEN [c1 EXCEPT !.pc = "calling"]
    ELSE [c1 EXCEPT !.pc = "raised"]

\* A caller calls the operation.
ClientCall(has_id) ==
    /\ client.pc = "idle"
    /\ client' = [client EXCEPT !.pc = "calling", !.has_id = has_id,
                                !.tries = 0, !.last = "none", !.answer = "none"]
    /\ UNCHANGED <<Config, req, session, web, limiter, entitlement, account>>

\* One try (after the backoff wait, when it is not the first).
ClientAttempt(outcome) ==
    /\ client.pc = "calling"
    /\ client.tries < MAX_RETRIES + 2
    /\ client' = on_exception(client, outcome)
    /\ UNCHANGED <<Config, req, session, web, limiter, entitlement, account>>

\* The call is over: its value or its exception is with the caller.
ClientEnd ==
    /\ client.pc \in {"returned", "raised"}
    /\ client' = [client EXCEPT !.pc = "idle"]
    /\ UNCHANGED <<Config, req, session, web, limiter, entitlement, account>>

\* The limiter's period has passed: its count starts again.
PeriodElapsed ==
    /\ client.num_calls > 0
    /\ client' = [client EXCEPT !.num_calls = 0]
    /\ UNCHANGED <<Config, req, session, web, limiter, entitlement, account>>

-----------------------------------------------------------------------------
(* One operation's limiter under concurrent calls, procurement_api.py:122-125 *)

\* The limiter that @limits(calls=15, period=FIFTEEN_MINUTES) attaches to an
\* operation when the class is defined: one for all callers of the
\* operation.  num_calls: the attempts counted in the current period (kept
\* up to one past the limit); period_over: the period has run out and the
\* next attempt starts a new one; lock: the thread inside the wrapper's
\* "with self.lock" block (0: none); admitted: the executions let through in
\* the current period.
Limiter(n) ==
    [num_calls |-> n, period_over |-> FALSE, lock |-> 0,
     admitted |-> IF n > RateLimitCalls THEN RateLimitCalls ELSE n]

\* A handler invocation at the operation: pc is "idle", "waiting" (for the
\* lock, at its first try or after a backoff), "counting" (inside the lock,
\* with the count it read), "executing" (let through, in the operation's
\* body), "returned" or "raised".
NoThread == [pc |-> "idle", tries |-> 0, read |-> 0, last |-> "none"]

\* The limiter and its callers when nothing has been called.
NoLimiter == [shared |-> Limiter(0), thread |-> [k \in Reqs |-> NoThread]]

\* A limiter without its lock.
held_by_other_never(lim, k) == FALSE

\* "with self.lock": another thread is inside the block.
held_by_other(lim, k) == lim.lock \notin {0, k}

\* The wrapper's locked block up to the reading of the count: a period that
\* has run out is started again (num_calls = 0).
enter(lim, k) ==
    IF lim.period_over
    THEN [lim EXCEPT !.lock = k, !.num_calls = 0, !.period_over = FALSE, !.admitted = 0]
    ELSE [lim EXCEPT !.lock = k]

\* The rest of the block: num_calls += 1, and the attempt is let through
\* unless the count is past the limit.
let_through(num_calls) == num_calls <= RateLimitCalls

count(lim, read) ==
    LET n == read + 1 IN
    [lim EXCEPT !.lock = 0,
                !.num_calls = IF n > RateLimitCalls + 1 THEN RateLimitCalls + 1 ELSE n,
                !.admitted = IF let_through(n) THEN @ + 1 ELSE @]

\* @on_exception around the limiter: what the loop does with the result of
\* an attempt (RateLimitException for a refused one): return it, retry a
\* retried exception until max_tries is reached, raise anything else.
attempted(th, result) ==
    LET t1 == [th EXCEPT !.tries = @ + 1, !.last = result, !.read = 0] IN
    IF result = "ok" THEN [t1 EXCEPT !.pc = "returned"]
    ELSE IF result \in Retried /\ ~max_tries_exceeded(t1.tries)
    THEN [t1 EXCEPT !.pc = "waiting"]
    ELSE [t1 EXCEPT !.pc = "raised"]

\* A handler invocation calls the operation.
LimiterCall(k) ==
    /\ limiter.thread[k].pc = "idle"
    /\ limiter' = [limiter EXCEPT !.thread[k] = [NoThread EXCEPT !.pc = "waiting"]]
    /\ UNCHANGED <<Config, req, session, web, client, entitlement, account>>

\* The thread takes the lock and reads the count.
LimiterEnter(k) ==
    /\ limiter.thread[k].pc = "waiting"
    /\ ~held_by_other(limiter.shared, k)
    /\ LET lim == enter(limiter.shared, k) IN
       limiter' = [limiter EXCEPT !.shared = lim,
                                  !.thread[k].pc = "counting",
                                  !.thread[k].read = lim.num_calls]
    /\ UNCHANGED <<Config, req, session, web, client, entitlement, account>>

\* The thread writes the count back, leaves the block, and runs the
\* operation or raises RateLimitException.
LimiterCount(k) ==
    /\ limiter.thread[k].pc = "counting"
    /\ LET th == limiter.thread[k] IN
       limiter' = [limiter EXCEPT
                     !.shared = count(@, th.read),
                     !.thread[k] = IF let_through(th.read + 1)
                                   THEN [th EXCEPT !.pc = "executing", !.read = 0]
                                   ELSE attempted(th, "RateLimitException")]
    /\ UNCHANGED <<Config, req, session, web, client, entitlement, account>>

\* What the body is followed through here: an answer, or an exception the
\* wrapper retries (ssl.SSLError is retried as HttpError is; an exception
\* that is not retried ends the call without coming back to the limiter).
BodyOutcomes == { "ok", "HttpError" }

\* The operation's body, outside the lock, answered or raised.
LimiterExecute(k, outcome) ==
    /\ limiter.thread[k].pc = "executing"
    /\ limiter' = [limiter EXCEPT
                     !.thread[k] = attempted(@, operation("approve_entitlement", TRUE, outcome))]
    /\ UNCHANGED <<Config, req, session, web, client, entitlement, account>>

\* FIFTEEN_MINUTES have passed since the period began.
LimiterPeriodElapsed ==
    /\ ~limiter.shared.period_over
    /\ limiter' = [limiter EXCEPT !.shared.period_over = TRUE]
    /\ UNCHANGED <<Config, req, session, web, client, entitlement, account>>

-----------------------------------------------------------------------------
(* Specifications *)

Init ==
    /\ settings \in Settings
    /\ product_settings \in ProductSettings
    /\ entitlement \in Entitlements
    /\ account \in Accounts
    /\ delivery = NoBody
    /\ req = [r \in Reqs |-> Fresh]
    /\ session = EmptySession
    /\ web = NoResponse
    /\ client = NoCall
    /\ limiter = NoLimiter

\* The webhook serving one request at a time, any body.
Next ==
    \/ \E body \in Bodies : Receive(Worker, body)
    \/ GetEntitlement(Worker)
    \/ GetAccount(Worker)
    \/ ApproveEntitlement(Worker)
    \/ ApprovePlanChange(Worker)
    \/ SendEmail(Worker)
    \/ SendSlack(Worker)
    \/ Notify(Worker)
    \/ AccountGetAccount(Worker)
    \/ Respond(Worker)

Spec == Init /\ [][Next]_vars

\* At-least-once delivery: one entitlement message is delivered up to MaxReq
\* times and the deliveries are handled concurrently, interleaved at their
\* remote calls.
InitRedeliver ==
    /\ settings = [email_recipients |-> <<>>, auto_approve_entitlements |-> FALSE]
    /\ product_settings \in ProductSettings
    /\ entitlement \in { NoEntitlement }
                       \cup { Entitlement(st, Absent) : st \in EntitlementStates }
                       \cup { Entitlement("ENTITLEMENT_PENDING_PLAN_CHANGE_APPROVAL", "plan-b") }
    /\ account \in { Account(<<Approval("signup", "PENDING")>>),
                      Account(<<Approval("signup", "APPROVED")>>) }
    /\ delivery \in EntitlementBodies
    /\ req = [r \in Reqs |-> Fresh]
    /\ session = EmptySession
    /\ web = NoResponse
    /\ client = NoCall
    /\ limiter = NoLimiter

NextRedeliver ==
    \E r \in Reqs :
        \/ Receive(r, delivery)
        \/ GetEntitlement(r)
        \/ GetAccount(r)
        \/ ApproveEntitlement(r)
        \/ ApprovePlanChange(r)
        \/ SendEmail(r)
        \/ SendSlack(r)
        \/ Notify(r)

SpecRedeliver == InitRedeliver /\ [][NextRedeliver]_vars

\* What a sender can put around the id and the event type of an entitlement
\* message: an "account" member, a "state" inside the entitlement member.
PayloadVariants(body) ==
    { body, [body EXCEPT !.account = "a1", !.embedded = "ENTITLEMENT_ACTIVE"] }

\* Messages with one entitlement id and one event type, differing in what
\* else they carry, handled one after the other; the answered requests stay
\* in their slots.
InitPayload ==
    /\ settings = [email_recipients |-> <<>>, auto_approve_entitlements |-> FALSE]
    /\ product_settings \in ProductSettings
    /\ entitlement \in { NoEntitlement }
                       \cup { Entitlement(st, Absent) : st \in EntitlementStates }
                       \cup { Entitlement("ENTITLEMENT_PENDING_PLAN_CHANGE_APPROVAL", "plan-b") }
    /\ account \in { Account(<<Approval("signup", "PENDING")>>),
                      Account(<<Approval("signup", "APPROVED")>>) }
    /\ delivery \in EntitlementBodies
    /\ req = [r \in Reqs |-> Fresh]
    /\ session = EmptySession
    /\ web = NoResponse
    /\ client = NoCall
    /\ limiter = NoLimiter

NextPayload ==
    \E r \in Reqs :
        \/ /\ \A o \in Reqs : o < r => req[o].pc = "done"
           /\ \E body \in PayloadVariants(delivery) : Receive(r, body)
        \/ GetEntitlement(r)
        \/ GetAccount(r)
        \/ ApproveEntitlement(r)
        \/ ApprovePlanChange(r)
        \/ SendEmail(r)
        \/ SendSlack(r)
        \/ Notify(r)

SpecPayload == InitPayload /\ [][NextPayload]_vars


\* The browser flows, the control API and the client's list call, one
\* request at a time, against any remote state.
InitWeb ==
    /\ settings \in Settings
    /\ product_settings = [auto_approve_entitlements |-> FALSE, email_recipients |-> <<>>,
                           slack_webhook |-> None, event_topic |-> None]
    /\ entitlement \in { NoEntitlement }
                       \cup { Entitlement(st, Absent) : st \in EntitlementStates }
    /\ account \in { NoAccount,
                     Account(<<Approval("signup", "PENDING")>>),
                     Account(<<Approval("signup", "APPROVED")>>) }
    /\ delivery = NoBody
    /\ req = [r \in Reqs |-> Fresh]
    /\ session \in Sessions
    /\ web = NoResponse
    /\ client = NoCall
    /\ limiter = NoLimiter

NextWeb ==
    \/ \E token \in Tokens \cup {NoToken}, net \in ActivateNet : Activate(token, net)
    \/ \E token \in Tokens \cup {NoToken}, form \in BOOLEAN, net \in RegisterNet :
          Register(token, form, net)
    \/ \E id \in PathEntitlementIds, ok \in BOOLEAN : EntitlementApprove(id, ok)
    \/ \E id \in PathEntitlementIds, msg_json \in RejectBodies, ok \in BOOLEAN :
          EntitlementReject(id, msg_json, ok)
    \/ \E id \in PathAccountIds, ok \in BOOLEAN : AccountApprove(id, ok)
    \/ \E id \in PathAccountIds, ok \in BOOLEAN : AccountReset(id, ok)
    \/ \E state \in {Absent, "", "ACTIVE", "SUSPENDED"}, ok \in BOOLEAN : Index(state, ok)
    \/ \E state \in {Absent, "ACTIVATION_REQUESTED", "CANCELLED", "bogus"}, ok \in BOOLEAN :
          EntitlementsPage(state, ok)
    \/ \E state \in {None, "", "ACTIVE", "ACTIVATION_REQUESTED"},
          account_id \in {None, "", "a1"}, ok \in BOOLEAN :
          ListEntitlements(state, account_id, ok)

SpecWeb == InitWeb /\ [][NextWeb]_vars

\* Calls of one client operation, one after the other, each with its
\* retries; a try that has been waiting for its backoff is made.
InitClient ==
    /\ settings = [email_recipients |-> <<>>, auto_approve_entitlements |-> FALSE]
    /\ product_settings = [auto_approve_entitlements |-> FALSE, email_recipients |-> <<>>,
                           slack_webhook |-> None, event_topic |-> None]
    /\ entitlement = NoEntitlement
    /\ account = NoAccount
    /\ delivery = NoBody
    /\ req = [r \in Reqs |-> Fresh]
    /\ session = EmptySession
    /\ web = NoResponse
    /\ \E op \in ClientOps : client = [NoCall EXCEPT !.op = op]
    /\ limiter = NoLimiter

NextClient ==
    \/ \E has_id \in BOOLEAN : ClientCall(has_id)
    \/ \E outcome \in RemoteOutcomes : ClientAttempt(outcome)
    \/ ClientEnd
    \/ PeriodElapsed

SpecClient ==
    InitClient /\ [][NextClient]_vars
    /\ WF_vars(\E outcome \in RemoteOutcomes : ClientAttempt(outcome))

\* Handler invocations calling one operation at the same time, against a
\* limiter that has counted any number of attempts in its period.
InitLimiter ==
    /\ settings = [email_recipients |-> <<>>, auto_approve_entitlements |-> FALSE]
    /\ product_settings = [auto_approve_entitlements |-> FALSE, email_recipients |-> <<>>,
                           slack_webhook |-> None, event_topic |-> None]
    /\ entitlement = NoEntitlement
    /\ account = NoAccount
    /\ delivery = NoBody
    /\ req = [r \in Reqs |-> Fresh]
    /\ session = EmptySession
    /\ web = NoResponse
    /\ client = NoCall
    /\ \E n \in 0..(RateLimitCalls + 1) :
          limiter = [NoLimiter EXCEPT !.shared = Limiter(n)]

NextLimiter ==
    \/ \E k \in Reqs :
          \/ LimiterCall(k)
          \/ LimiterEnter(k)
          \/ LimiterCount(k)
          \/ \E outcome \in BodyOutcomes : LimiterExecute(k, outcome)
    \/ LimiterPeriodElapsed

SpecLimiter == InitLimiter /\ [][NextLimiter]_vars

-----------------------------------------------------------------------------
(* What the claims speak of *)

\* The calls of a request with operation op.
CallsOf(rq, op) == { i \in 1..Len(rq.calls) : rq.calls[i].op = op }

NumCalls(rq, op) == Cardinality(CallsOf(rq, op))

\* Procurement writes, notifications and publishes.
EffectOps ==
    { "approve_entitlement", "approve_entitlement_plan_change",
      "send_email", "send_slack_message", "publish" }

\* The (operation, argument) pairs of the side effects a request performed.
Effects(rq) ==
    { <<rq.calls[i].op, rq.calls[i].arg>> :
        i \in { j \in 1..Len(rq.calls) : rq.calls[j].op \in EffectOps /\ rq.calls[j].ok } }

InEntitlementHandler(rq) == rq.handler = "handle_entitlement"

\* The request is past get_account and meets the row (evt, st).
OnRow(rq, evt, st) ==
    /\ InEntitlementHandler(rq)
    /\ rq.account_seen
    /\ rq.event_type = evt
    /\ rq.fetched.state = st

-----------------------------------------------------------------------------
(* C1 *)

\* C1: every answered webhook request is answered with HTTP 200, whatever
\* happened inside: a bad envelope, undecodable data, an unknown shape, or an
\* exception out of handle_entitlement / handle_account.
C1_AlwaysAcknowledged ==
    \A r \in Reqs : req[r].pc = "done" => req[r].status = 200

\* A procurement call failed inside a handler and the request was answered.
C1_Witness ==
    \E r \in Reqs :
        /\ req[r].pc = "done"
        /\ req[r].raised
        /\ \E i \in 1..Len(req[r].calls) : ~req[r].calls[i].ok

-----------------------------------------------------------------------------
(* C2 *)

\* The decoded JSON has {entitlement, eventType} or {account}.
HasKnownShape(body) ==
    /\ body.kind = "object"
    /\ \/ body.entitlement # Absent /\ body.eventType # Absent
       \/ body.account # Absent

\* A malformed request in the sense of C2: no message or data, data that
\* is not base64 of UTF-8 of JSON, or JSON of neither shape.
Malformed(body) ==
    \/ body.envelope \in {"no_message", "no_data"}
    \/ body.b64 # "canonical"
    \/ ~body.utf8
    \/ ~body.json
    \/ ~HasKnownShape(body)

\* C2: a malformed request is answered 200 with no handler invoked and no
\* downstream call at all.
C2_MalformedNoCalls ==
    \A r \in Reqs :
        (req[r].pc # "idle" /\ Malformed(req[r].body)) =>
            /\ req[r].pc = "done"
            /\ req[r].status = 200
            /\ req[r].handler = "none"
            /\ req[r].calls = <<>>

-----------------------------------------------------------------------------
(* C3, C4 *)

AllDone == \A r \in Reqs : req[r].pc = "done"

\* The calls of op, over all requests, that succeeded.
Performed(op) ==
    UNION { { <<r, i>> : i \in { j \in CallsOf(req[r], op) : req[r].calls[j].ok } } :
            r \in Reqs }

\* C3: when the same CREATION_REQUESTED event is delivered several times and
\* handled concurrently, the approval of its entitlement is performed
\* exactly once.
C3_ApprovedExactlyOnce ==
    ( /\ AllDone
      /\ delivery.eventType = "ENTITLEMENT_CREATION_REQUESTED"
      /\ Performed("approve_entitlement") # {} )
    => Cardinality(Performed("approve_entitlement")) = 1

\* C4: the second of two deliveries of the same event, the remote state
\* being what the first one found, repeats no notification and no approval
\* of the first.
C4_RedeliveryRepeatsNothing ==
    \A r1 \in Reqs, r2 \in Reqs :
        ( /\ req[r2].pc = "done"
          /\ r1 \in req[r2].prior
          /\ req[r1].fetched = req[r2].fetched
          /\ req[r1].fetched_account = req[r2].fetched_account )
        => Effects(req[r1]) \cap Effects(req[r2]) = {}

-----------------------------------------------------------------------------
(* C5 *)

\* Not approved in the sense of C5: the account is missing, has no approval
\* named "signup", or the state of its (first) signup approval is not
\* APPROVED.
NotApproved(acct) ==
    \/ ~acct.found
    \/ \A i \in 1..Len(acct.approvals) : acct.approvals[i].name # "signup"
    \/ \E i \in 1..Len(acct.approvals) :
          /\ acct.approvals[i].name = "signup"
          /\ \A j \in 1..(i - 1) : acct.approvals[j].name # "signup"
          /\ acct.approvals[i].state # "APPROVED"

\* C5: a handle_entitlement invocation whose fetched account is not approved
\* returns at once: no approval, no plan-change approval, no email, no Slack
\* post and no publish, whatever the event type and entitlement state.
C5_AccountApprovalGate ==
    \A r \in Reqs :
        ( /\ InEntitlementHandler(req[r])
          /\ req[r].account_seen
          /\ NotApproved(req[r].fetched_account) )
        => /\ req[r].pc = "done"
           /\ \A op \in EffectOps : CallsOf(req[r], op) = {}

\* The gate closed on an invocation that would otherwise have approved and
\* notified.
C5_Witness ==
    \E r \in Reqs :
        /\ OnRow(req[r], "ENTITLEMENT_CREATION_REQUESTED", "ENTITLEMENT_ACTIVATION_REQUESTED")
        /\ NotApproved(req[r].fetched_account)
        /\ req[r].fetched_account.found
        /\ product_settings.auto_approve_entitlements
        /\ product_settings.email_recipients # <<>>
        /\ req[r].pc = "done"

-----------------------------------------------------------------------------
(* C6, C7 *)

\* C6: no exception leaves handle_entitlement.
C6_HandleEntitlementNeverRaises ==
    \A r \in Reqs : InEntitlementHandler(req[r]) => ~req[r].raised

\* C7: no exception leaves handle_account.
C7_HandleAccountNeverRaises ==
    \A r \in Reqs : req[r].handler = "handle_account" => ~req[r].raised

-----------------------------------------------------------------------------
(* C8 *)

CreationRow(rq) ==
    /\ OnRow(rq, "ENTITLEMENT_CREATION_REQUESTED", "ENTITLEMENT_ACTIVATION_REQUESTED")
    /\ rq.approved
    /\ product_settings.auto_approve_entitlements
    /\ rq.pc = "done"

CreationEmails(rq) ==
    { i \in CallsOf(rq, "send_email") :
        rq.calls[i].arg = "New Entitlement Creation Request" }

-----------------------------------------------------------------------------
(* C9 *)

ActiveRow(rq) ==
    /\ OnRow(rq, "ENTITLEMENT_ACTIVE", "ENTITLEMENT_ACTIVE")
    /\ rq.approved
    /\ rq.pc = "done"

\* C9: event ACTIVE with fetched state ACTIVE and an approved account: with
\* an event_topic, the invocation makes exactly one publish, of a "create"
\* change event; without one, it makes no publish and returns without error.
C9_ActivePublishesCreateOnce ==
    \A r \in Reqs :
        ActiveRow(req[r]) =>
            IF Truthy(product_settings.event_topic)
            THEN /\ NumCalls(req[r], "publish") = 1
                 /\ \A i \in CallsOf(req[r], "publish") : req[r].calls[i].arg = "create"
            ELSE /\ NumCalls(req[r], "publish") = 0
                 /\ ~req[r].raised

\* An invocation on the row published its "create" event.
C9_Witness ==
    \E r \in Reqs :
        /\ ActiveRow(req[r])
        /\ Truthy(product_settings.event_topic)
        /\ \E i \in CallsOf(req[r], "publish") :
              req[r].calls[i].arg = "create" /\ req[r].calls[i].ok

-----------------------------------------------------------------------------
(* C10 *)

\* C10: event CANCELLED with fetched state CANCELLED and no event_topic: the
\* invocation makes no publish attempt and returns normally.
C10_CancelledNoTopicReturns ==
    \A r \in Reqs :
        ( /\ InEntitlementHandler(req[r])
          /\ req[r].event_type = "ENTITLEMENT_CANCELLED"
          /\ req[r].fetched.state = "ENTITLEMENT_CANCELLED"
          /\ ~Truthy(product_settings.event_topic)
          /\ req[r].pc = "done" )
        => /\ NumCalls(req[r], "publish") = 0
           /\ ~req[r].raised

-----------------------------------------------------------------------------
(* C11 *)

\* The rows of the chain that act, entitlement.py:228-342.
ListedRows ==
    { <<"ENTITLEMENT_CREATION_REQUESTED", "ENTITLEMENT_ACTIVATION_REQUESTED">>,
      <<"ENTITLEMENT_ACTIVE", "ENTITLEMENT_ACTIVE">>,
      <<"ENTITLEMENT_PLAN_CHANGE_REQUESTED", "ENTITLEMENT_PENDING_PLAN_CHANGE_APPROVAL">>,
      <<"ENTITLEMENT_PLAN_CHANGED", "ENTITLEMENT_ACTIVE">>,
      <<"ENTITLEMENT_CANCELLED", "ENTITLEMENT_CANCELLED">>,
      <<"ENTITLEMENT_OFFER_ACCEPTED", "ENTITLEMENT_ACTIVATION_REQUESTED">> }

\* C11: an invocation whose (event type, fetched state) pair is not a row of
\* the dispatch table makes no approval, no plan-change approval, no email,
\* no Slack post and no publish; so a replay that finds the state moved away
\* from its row has no side effect.
C11_UnlistedPairsAreNoOps ==
    \A r \in Reqs :
        ( /\ InEntitlementHandler(req[r])
          /\ req[r].account_seen
          /\ <<req[r].event_type, req[r].fetched.state>> \notin ListedRows )
        => /\ req[r].pc = "done"
           /\ \A op \in EffectOps : CallsOf(req[r], op) = {}

\* A CREATION_REQUESTED replay that found the entitlement already active, on
\* an approved account with auto-approval and every channel configured.
C11_Witness ==
    \E r \in Reqs :
        /\ OnRow(req[r], "ENTITLEMENT_CREATION_REQUESTED", "ENTITLEMENT_ACTIVE")
        /\ req[r].approved
        /\ product_settings.auto_approve_entitlements
        /\ product_settings.email_recipients # <<>>
        /\ Truthy(product_settings.slack_webhook)
        /\ req[r].pc = "done"

-----------------------------------------------------------------------------
(* C12 *)

\* get_entitlement answered "not found" for the id of the request's event.
EntitlementNotFound(rq) ==
    /\ InEntitlementHandler(rq)
    /\ \E i \in CallsOf(rq, "get_entitlement") : rq.calls[i].ok
    /\ ~get_entitlement(rq.body.entitlement).found

\* C12: when get_entitlement answers not-found, the invocation ends there:
\* get_entitlement is its only call, and it returns normally.
C12_NotFoundIsNoOp ==
    \A r \in Reqs :
        EntitlementNotFound(req[r]) =>
            /\ req[r].pc = "done"
            /\ ~req[r].raised
            /\ Len(req[r].calls) = 1

\* Not-found on an event whose row would otherwise approve.
C12_Witness ==
    \E r \in Reqs :
        /\ EntitlementNotFound(req[r])
        /\ req[r].event_type = "ENTITLEMENT_CREATION_REQUESTED"
        /\ product_settings.auto_approve_entitlements
        /\ is_account_approved(account)
        /\ req[r].pc = "done"

-----------------------------------------------------------------------------
(* C16 *)

\* The account has an approval named "signup", and the first approval of
\* that name in list order is in state APPROVED.
FirstSignupApproved(acct) ==
    /\ acct.found
    /\ \E i \in 1..Len(acct.approvals) :
          /\ acct.approvals[i].name = "signup"
          /\ \A j \in 1..(i - 1) : acct.approvals[j].name # "signup"
          /\ acct.approvals[i].state = "APPROVED"

\* C16: is_account_approved gives a Boolean for every account answer, true
\* exactly when the first approval named "signup" is APPROVED; the handler
\* that evaluated it on its fetched account did not raise in doing so.
C16_ApprovedIffFirstSignupApproved ==
    /\ \A acct \in Accounts :
          /\ is_account_approved(acct) \in BOOLEAN
          /\ is_account_approved(acct) <=> FirstSignupApproved(acct)
    /\ \A r \in Reqs :
          (InEntitlementHandler(req[r]) /\ req[r].account_seen) =>
              /\ req[r].approved <=> FirstSignupApproved(req[r].fetched_account)
              /\ (~req[r].approved => ~req[r].raised)

\* The evaluator ran on an account whose first signup approval is pending
\* and whose second is approved, or on one with an unrecognized state.
C16_Witness ==
    \E r \in Reqs :
        /\ InEntitlementHandler(req[r])
        /\ req[r].account_seen
        /\ ~req[r].approved
        /\ req[r].fetched_account \in
              { Account(<<Approval("signup", "PENDING"), Approval("signup", "APPROVED")>>),
                Account(<<Approval("signup", "REJECTED")>>) }

-----------------------------------------------------------------------------
(* C18 *)

NotificationOps == { "send_email", "send_slack_message", "publish" }

\* The notification calls of a request that failed.
FailedNotifications(rq) ==
    { i \in 1..Len(rq.calls) : rq.calls[i].op \in NotificationOps /\ ~rq.calls[i].ok }

\* C18: in handle_entitlement a failed notification (email, Slack, publish)
\* never escalates: the invocation ends by returning normally; after a
\* failed creation-request email the Slack message is still attempted when a
\* webhook is configured; and nothing but notifications follows it, so no
\* call undoes an approval already made.
C18_NotificationFailuresSwallowed ==
    \A r \in Reqs :
        LET rq == req[r] IN
        (InEntitlementHandler(rq) /\ FailedNotifications(rq) # {}) =>
            /\ ~rq.raised
            /\ \A i \in FailedNotifications(rq) :
                  \A j \in (i + 1)..Len(rq.calls) : rq.calls[j].op \in NotificationOps
            /\ ( /\ rq.pc = "done"
                 /\ \E i \in FailedNotifications(rq) :
                       /\ rq.calls[i].op = "send_email"
                       /\ rq.calls[i].arg = "New Entitlement Creation Request"
                 /\ Truthy(product_settings.slack_webhook) )
               => CallsOf(rq, "send_slack_message") # {}
            /\ (\E i \in CallsOf(rq, "approve_entitlement") : rq.calls[i].ok)
               => entitlement.state = "ENTITLEMENT_ACTIVE"

\* After a successful approval the email failed, Slack was attempted and
\* failed too, and the invocation returned.
C18_Witness ==
    \E r \in Reqs :
        /\ InEntitlementHandler(req[r])
        /\ req[r].pc = "done"
        /\ \E i \in CallsOf(req[r], "approve_entitlement") : req[r].calls[i].ok
        /\ \E i \in CallsOf(req[r], "send_email") : ~req[r].calls[i].ok
        /\ \E i \in CallsOf(req[r], "send_slack_message") : ~req[r].calls[i].ok

-----------------------------------------------------------------------------
(* C19 *)

\* C19: handle_account writes nothing to the procurement service: its only
\* procurement call is get_account, made at most once, and the only other
\* call it makes is send_email.
C19_HandleAccountReadsOnly ==
    \A r \in Reqs :
        req[r].handler = "handle_account" =>
            /\ \A i \in 1..Len(req[r].calls) :
                  req[r].calls[i].op \in {"get_account", "send_email"}
            /\ NumCalls(req[r], "get_account") <= 1

\* handle_account ran to its end on an approved account and sent its email.
C19_Witness ==
    \E r \in Reqs :
        /\ req[r].handler = "handle_account"
        /\ req[r].pc = "done"
        /\ req[r].fetched_account = Account(<<Approval("signup", "APPROVED")>>)
        /\ CallsOf(req[r], "send_email") # {}

-----------------------------------------------------------------------------
(* C13 *)

FlowRoutes == { "activate", "signup" }

AccountOrEntitlementApprovals(resp) ==
    { i \in 1..Len(resp.calls) :
        resp.calls[i].op \in {"approve_account", "approve_entitlement"} }

\* C13 as stated: a request of the activation or signup flow that carries a
\* token with a wrong issuer, an unknown key id, a tampered signature, a
\* wrong audience or an empty subject is answered 401, and no account or
\* entitlement approval is made for it.
C13_BadTokenRejected ==
    (web.route \in FlowRoutes /\ BadToken(web.token)) =>
        /\ web.status = 401
        /\ AccountOrEntitlementApprovals(web) = {}

\* The requests whose token the flows verify: the first POST of /signup
\* (no companyName), and /activate arriving without claims in the session.
TokenVerified(resp) ==
    /\ resp.token.present
    /\ \/ resp.route = "signup" /\ ~resp.form
       \/ resp.route = "activate" /\ ~resp.arrived_with.present

\* C13 amended: the flows verify the token of the first /signup POST (the
\* one without companyName) and of an /activate request that arrives
\* without claims in the session, and of no other request.  Where the token
\* is verified, a wrong issuer, an unknown key id, a tampered signature, a
\* wrong audience or an empty subject each ends the request with HTTP 401,
\* without any call (no approve_account, no approve_entitlement) and with
\* the session left as it arrived.  A /signup form post and an /activate
\* request with claims in the session do not look at their token.
C13_VerifiedBadTokenRejected ==
    web.route \in FlowRoutes =>
        /\ TokenVerified(web) <=> web.verify # "not_run"
        /\ (TokenVerified(web) /\ BadToken(web.token)) =>
              /\ web.verify = "raised"
              /\ web.status = 401
              /\ web.calls = <<>>
              /\ session.jwt_claims = web.arrived_with

\* /activate rejected a token with a tampered signature while the account
\* it names was still pending.
C13_Witness ==
    /\ web.route = "activate"
    /\ web.token = [ValidToken EXCEPT !.signed = FALSE]
    /\ web.verify = "raised"
    /\ web.status = 401
    /\ account = Account(<<Approval("signup", "PENDING")>>)

-----------------------------------------------------------------------------
(* C14 *)

\* C14: when a request to /activate has been answered, whatever the answer,
\* the session holds no jwt_claims.
C14_ClaimsClearedAfterActivate ==
    web.route = "activate" => ~session.jwt_claims.present

\* /activate verified a token, kept its claims in the session, failed in an
\* approval (HTTP 500), and the claims are gone.
C14_Witness ==
    /\ web.route = "activate"
    /\ web.verify = "ok"
    /\ web.status = 500
    /\ ~session.jwt_claims.present

-----------------------------------------------------------------------------
(* C15 *)

\* C15: the filter list_entitlements sends is "state=X" for a state alone,
\* "state=X account=Y" for a state and an account (state first, one space
\* between), and none at all when neither is given.
C15_ListFilter ==
    web.route = "list_entitlements" =>
        /\ (Truthy(web.state) /\ ~Truthy(web.id)) =>
              web.filter = "state=" \o web.state
        /\ (Truthy(web.state) /\ Truthy(web.id)) =>
              web.filter = "state=" \o web.state \o " " \o "account=" \o web.id
        /\ (~Truthy(web.state) /\ ~Truthy(web.id)) => web.filter = None
        /\ (web.state = "ACTIVE" /\ web.id = "a1") =>
              web.filter = "state=ACTIVE account=a1"

\* list_entitlements was called with a state and an account.
C15_Witness ==
    /\ web.route = "list_entitlements"
    /\ web.state = "ACTIVE"
    /\ web.id = "a1"
    /\ web.filter = "state=ACTIVE account=a1"

-----------------------------------------------------------------------------
(* C17 *)

ControlRoutes ==
    { "entitlement_approve", "entitlement_reject", "account_approve", "account_reset" }

\* The body of the request has no "reason" field.
NoReasonField(json) == ~json.parses \/ json.kind # "object" \/ ~json.has_reason

\* C17: a control operation answers 200 when its procurement call went
\* through and 500 when it failed; a reject request without a "reason"
\* field is answered 400 and makes no reject_entitlement call.
C17_ControlApiStatus ==
    web.route \in ControlRoutes =>
        /\ web.status \in {200, 400, 500}
        /\ \A i \in 1..Len(web.calls) :
              web.status = IF web.calls[i].ok THEN 200 ELSE 500
        /\ (web.route = "entitlement_reject" /\ NoReasonField(web.json)) =>
              /\ web.status = 400
              /\ web.calls = <<>>

-----------------------------------------------------------------------------
(* C20 *)

\* A failed try is retried while fewer than MAX_RETRIES tries were made,
\* and the call is given up, with the failure raised, at the last one.
RetriesWithinCeiling ==
    /\ client.tries <= MAX_RETRIES
    /\ client.pc = "calling" => client.tries < MAX_RETRIES
    /\ (client.pc = "calling" /\ client.tries > 0) => client.last \in Retried
    /\ (client.last \in Retried /\ client.tries < MAX_RETRIES) =>
          client.pc = "calling"
    /\ (client.last \in Retried /\ client.tries = MAX_RETRIES) =>
          client.pc \in {"raised", "idle"}
    /\ (client.pc = "raised" /\ client.last \in Retried) =>
          client.tries = MAX_RETRIES

\* C20: every operation of the client tries again after a rate-limit, TLS
\* or HTTP failure, makes at most 8 tries for one call, raises the failure
\* of the last try to its caller, and so every call ends.
C20_RetriesBoundedAndEnd ==
    /\ []RetriesWithinCeiling
    /\ (client.pc = "calling") ~> (client.pc \in {"returned", "raised"})

\* A call made 8 tries, each a retried failure, and raised the last one.
C20_Witness ==
    /\ client.pc = "raised"
    /\ client.tries = MAX_RETRIES
    /\ client.last \in Retried

-----------------------------------------------------------------------------
(* C21 *)

\* The email and Slack attempts of a request.
NoticeCalls(rq) ==
    CallsOf(rq, "send_email") \cup CallsOf(rq, "send_slack_message")

\* C21: in handle_entitlement the approve_entitlement call comes back before
\* the first email or Slack attempt starts: every approve_entitlement call
\* precedes every notification attempt and has succeeded when one follows
\* it, and while the approval is in flight no notification has been made.
C21_ApprovalBeforeNotification ==
    \A r \in Reqs :
        LET rq == req[r] IN
        InEntitlementHandler(rq) =>
            /\ \A i \in CallsOf(rq, "approve_entitlement"), j \in NoticeCalls(rq) :
                  i < j /\ rq.calls[i].ok
            /\ rq.pc = "approve_entitlement" => NoticeCalls(rq) = {}
            /\ (rq.pc \in {"send_email", "send_slack_message"}
                /\ product_settings.auto_approve_entitlements
                /\ rq.event_type = "ENTITLEMENT_CREATION_REQUESTED")
               => \E i \in CallsOf(rq, "approve_entitlement") : rq.calls[i].ok

\* An invocation approved and then attempted the email and the Slack post.
C21_Witness ==
    \E r \in Reqs :
        /\ InEntitlementHandler(req[r])
        /\ \E i \in CallsOf(req[r], "approve_entitlement") :
              /\ \E j \in CallsOf(req[r], "send_email") : i < j
              /\ \E j \in CallsOf(req[r], "send_slack_message") : i < j

-----------------------------------------------------------------------------
(* C22 *)

\* The steps of the verification of the last request with operation op.
StepsOf(resp, op) ==
    { i \in 1..Len(resp.verification) : resp.verification[i].op = op }

\* C22: verify_marketplace_jwt compares the token's issuer before it makes
\* any network call: a token of another issuer is rejected with nothing
\* fetched, the certificates are only ever fetched from GOOGLE_CERT_URL, and
\* a token whose key id is not among the fetched certificates is rejected
\* before any signature is verified; a signature is verified only after a
\* fetch that came back.
C22_IssuerBeforeFetchKeyBeforeSignature ==
    (web.route \in FlowRoutes /\ web.verify # "not_run") =>
        /\ web.token.iss # GOOGLE_CERT_URL =>
              web.verify = "raised" /\ web.verification = <<>>
        /\ \A i \in StepsOf(web, "requests.get") :
              web.verification[i].arg = GOOGLE_CERT_URL
        /\ web.token.kid \notin CertKeyIds =>
              web.verify = "raised" /\ StepsOf(web, "jwt.decode") = {}
        /\ \A j \in StepsOf(web, "jwt.decode") :
              \E i \in StepsOf(web, "requests.get") :
                  i < j /\ web.verification[i].ok

\* A token of the trusted issuer with an unknown key id was rejected after
\* the fetch and before any signature verification.
C22_Witness ==
    /\ web.route \in FlowRoutes
    /\ web.verify = "raised"
    /\ web.token.iss = GOOGLE_CERT_URL
    /\ web.token.kid \notin CertKeyIds
    /\ web.verification = <<Call("requests.get", GOOGLE_CERT_URL, TRUE)>>

-----------------------------------------------------------------------------
(* C23 *)

PlanChangeRow(rq) ==
    /\ OnRow(rq, "ENTITLEMENT_PLAN_CHANGE_REQUESTED",
                 "ENTITLEMENT_PENDING_PLAN_CHANGE_APPROVAL")
    /\ rq.approved
    /\ rq.pc = "done"

ProcurementWrites == { "approve_entitlement", "approve_entitlement_plan_change" }

\* C23: event PLAN_CHANGE_REQUESTED with fetched state
\* PENDING_PLAN_CHANGE_APPROVAL and an approved account: when the fetched
\* entitlement has a newPendingPlan, approve_entitlement_plan_change is
\* called exactly once, with that plan, and approve_entitlement never; when
\* it has none, no procurement write is made; in both cases there is no
\* email, no Slack post and no publish.
C23_PlanChangeApprovedOnce ==
    \A r \in Reqs :
        LET rq == req[r] IN
        PlanChangeRow(rq) =>
            /\ IF rq.fetched.newPendingPlan # Absent
               THEN /\ NumCalls(rq, "approve_entitlement_plan_change") = 1
                    /\ \A i \in CallsOf(rq, "approve_entitlement_plan_change") :
                          rq.calls[i].arg = rq.fetched.newPendingPlan
                    /\ NumCalls(rq, "approve_entitlement") = 0
               ELSE \A op \in ProcurementWrites : NumCalls(rq, op) = 0
            /\ \A op \in NotificationOps : NumCalls(rq, op) = 0

\* The plan change to "plan-b" was approved with every channel configured.
C23_Witness ==
    \E r \in Reqs :
        /\ PlanChangeRow(req[r])
        /\ req[r].fetched.newPendingPlan = "plan-b"
        /\ \E i \in CallsOf(req[r], "approve_entitlement_plan_change") : req[r].calls[i].ok
        /\ product_settings.email_recipients # <<>>
        /\ Truthy(product_settings.slack_webhook)
        /\ Truthy(product_settings.event_topic)

-----------------------------------------------------------------------------
(* C24 *)

\* The rows that publish, with the kind of change event of each.
PublishingRows ==
    { <<"ENTITLEMENT_ACTIVE", "ENTITLEMENT_ACTIVE", "create">>,
      <<"ENTITLEMENT_PLAN_CHANGED", "ENTITLEMENT_ACTIVE", "upgrade">>,
      <<"ENTITLEMENT_CANCELLED", "ENTITLEMENT_CANCELLED", "destroy">> }

\* C24: the kind of a published change event is that of the matched row
\* (ACTIVE/ACTIVE "create", PLAN_CHANGED/ACTIVE "upgrade",
\* CANCELLED/CANCELLED "destroy"); no other row and no account message
\* publishes; nothing is published without an event_topic; a publishing row
\* with a topic publishes once; and what is published is {event,
\* entitlement} with the entitlement as the procurement service holds it,
\* under the id of the event.
C24_PublishedKindFollowsRow ==
    \A r \in Reqs :
        LET rq == req[r] IN
        /\ Len(rq.published) = NumCalls(rq, "publish")
        /\ \A i \in CallsOf(rq, "publish") :
              /\ InEntitlementHandler(rq)
              /\ rq.approved
              /\ Truthy(product_settings.event_topic)
              /\ <<rq.event_type, rq.fetched.state, rq.calls[i].arg>> \in PublishingRows
        /\ \A k \in 1..Len(rq.published) :
              /\ <<rq.event_type, entitlement.state, rq.published[k].event>> \in PublishingRows
              /\ rq.published[k].entitlement = [id |-> EntitlementId] @@ entitlement
        /\ \A row \in PublishingRows :
              ( /\ OnRow(rq, row[1], row[2])
                /\ rq.approved
                /\ rq.pc = "done"
                /\ Truthy(product_settings.event_topic) )
              => /\ NumCalls(rq, "publish") = 1
                 /\ rq.published[1].event = row[3]

\* An "upgrade" change event was published for the active entitlement.
C24_Witness ==
    \E r \in Reqs :
        /\ req[r].pc = "done"
        /\ Len(req[r].published) = 1
        /\ req[r].published[1].event = "upgrade"
        /\ req[r].published[1].entitlement.state = entitlement.state
        /\ \E i \in CallsOf(req[r], "publish") : req[r].calls[i].ok

-----------------------------------------------------------------------------
(* C25 *)

OfferRow(rq) ==
    /\ OnRow(rq, "ENTITLEMENT_OFFER_ACCEPTED", "ENTITLEMENT_ACTIVATION_REQUESTED")
    /\ rq.approved
    /\ rq.pc = "done"

\* C25: event OFFER_ACCEPTED with fetched state ACTIVATION_REQUESTED and an
\* approved account: the "offer accepted" email is attempted once when
\* recipients are configured and not at all otherwise, and nothing else is
\* done: no approval (auto_approve or not), no plan-change approval, no
\* Slack post, no publish, and the entitlement stays as it was.
C25_OfferAcceptedOnlyEmails ==
    \A r \in Reqs :
        LET rq == req[r] IN
        OfferRow(rq) =>
            /\ NumCalls(rq, "send_email") =
                  IF product_settings.email_recipients # <<>> THEN 1 ELSE 0
            /\ \A i \in CallsOf(rq, "send_email") :
                  rq.calls[i].arg = "New Entitlement Offer Accepted"
            /\ \A op \in EffectOps \ {"send_email"} : NumCalls(rq, op) = 0
            /\ entitlement.state = "ENTITLEMENT_ACTIVATION_REQUESTED"

\* The offer email was sent with auto-approval, a Slack webhook and a topic
\* all configured.
C25_Witness ==
    \E r \in Reqs :
        /\ OfferRow(req[r])
        /\ product_settings.auto_approve_entitlements
        /\ Truthy(product_settings.slack_webhook)
        /\ Truthy(product_settings.event_topic)
        /\ \E i \in CallsOf(req[r], "send_email") : req[r].calls[i].ok

-----------------------------------------------------------------------------
(* C26 *)

\* The state of the first approval named "signup" of an account answer:
\* "no approval" when the account or such an approval is missing.
SignupState(acct) ==
    IF \E i \in 1..Len(acct.approvals) : acct.approvals[i].name = "signup"
    THEN LET i == CHOOSE i \in 1..Len(acct.approvals) :
                    /\ acct.approvals[i].name = "signup"
                    /\ \A j \in 1..(i - 1) : acct.approvals[j].name # "signup"
         IN acct.approvals[i].state
    ELSE "no approval"

\* handle_account has finished with a message that names an account.
AccountHandled(rq) ==
    /\ rq.handler = "handle_account"
    /\ rq.body.account # NoId
    /\ rq.pc = "done"

\* C26: handle_account sends at most one notification.  With recipients
\* configured it sends exactly one "pending approval" notification when the
\* signup approval of the account is PENDING and exactly one "approved"
\* notification when it is APPROVED; when the account is not found, has no
\* signup approval, has one in another state, or no recipients are
\* configured, it sends none and returns normally.
C26_AccountNotifiedAtMostOnce ==
    \A r \in Reqs :
        LET rq == req[r]
            state == SignupState(get_account(<<rq.body.account>>))
            configured == settings.email_recipients # <<>>
        IN
        AccountHandled(rq) =>
            /\ NumCalls(rq, "send_email") <= 1
            /\ (configured /\ state = "PENDING") =>
                  /\ NumCalls(rq, "send_email") = 1
                  /\ \A i \in CallsOf(rq, "send_email") :
                        rq.calls[i].arg = "New Account Pending Approval"
            /\ (configured /\ state = "APPROVED") =>
                  /\ NumCalls(rq, "send_email") = 1
                  /\ \A i \in CallsOf(rq, "send_email") :
                        rq.calls[i].arg = "New Account Approved"
            /\ (~configured \/ state \notin {"PENDING", "APPROVED"}) =>
                  /\ NumCalls(rq, "send_email") = 0
                  /\ ~rq.raised

-----------------------------------------------------------------------------
(* C27 *)

\* get_entitlement answered the request with the entitlement of the service.
EntitlementAnswered(rq) ==
    /\ rq.body.entitlement = EntitlementId
    /\ \E i \in CallsOf(rq, "get_entitlement") : rq.calls[i].ok
    /\ entitlement.found

\* C27: every failed precondition of handle_entitlement ends the invocation
\* as a no-op: an event without an id, or with an empty event type, makes no
\* remote call at all; an entitlement answer without "product", "account" or
\* "state", or a failure to resolve the product's settings, makes no
\* approval, no notification and no publish; and in each case the handler
\* returns without raising.
C27_FailedPreconditionsAreNoOps ==
    \A r \in Reqs :
        LET rq == req[r] IN
        (InEntitlementHandler(rq) /\ rq.pc = "done") =>
            /\ (rq.body.entitlement = NoId \/ rq.event_type = "") =>
                  rq.calls = <<>> /\ ~rq.raised
            /\ ( \/ /\ EntitlementAnswered(rq)
                    /\ \/ entitlement.product = <<Absent>>
                       \/ entitlement.account = <<Absent>>
                       \/ entitlement.state = Absent
                 \/ rq.from_env = "raised" )
               => /\ \A op \in EffectOps : NumCalls(rq, op) = 0
                  /\ ~rq.raised

-----------------------------------------------------------------------------
(* C28 *)

\* The account the activation is for: the subject of the session's claims,
\* else that of the token.
Subject(resp) ==
    IF resp.arrived_with.present THEN resp.arrived_with.sub ELSE resp.token.sub

\* C28: in the activation flow approve_account(subject) is the first call
\* and is made once; approve_entitlement is called only after
\* approve_account came back successfully, only with auto-approval enabled
\* and a lookup that listed at least one pending entitlement, and then
\* exactly once, for the last entitlement listed; with all of these it is
\* called.
C28_ActivationOrder ==
    (web.route = "activate" /\ web.calls # <<>>) =>
        LET approvals == { i \in 1..Len(web.calls) :
                             web.calls[i].op = "approve_entitlement" }
            accounts == { i \in 1..Len(web.calls) :
                            web.calls[i].op = "approve_account" }
        IN
        /\ accounts = {1}
        /\ web.calls[1].arg = Subject(web)
        /\ \A i \in approvals :
              /\ web.calls[1].ok
              /\ settings.auto_approve_entitlements
              /\ web.listed # <<>>
              /\ web.calls[i].arg = web.listed[Len(web.listed)][4]
              /\ \E j \in 2..(i - 1) :
                    web.calls[j].op = "list_entitlements" /\ web.calls[j].ok
        /\ Cardinality(approvals) =
              IF /\ web.calls[1].ok
                 /\ settings.auto_approve_entitlements
                 /\ web.listed # <<>>
              THEN 1 ELSE 0

\* Two pending entitlements were listed, e1 first, and the last one was
\* approved after the account.
C28_Witness ==
    /\ web.route = "activate"
    /\ web.listed = <<EntitlementName, OtherEntitlementName>>
    /\ Len(web.calls) = 3
    /\ web.calls[1] = Call("approve_account", "a1", TRUE)
    /\ web.calls[3] = Call("approve_entitlement", "e0", TRUE)
    /\ web.status = 200

-----------------------------------------------------------------------------
(* C29 *)

\* The last attempt of a get_account or get_entitlement call was answered
\* with HTTP 404.
NotFoundAnswer ==
    client.op \in GetOps /\ client.answer = "HttpError404"

\* C29: a 404 answer to get_account or get_entitlement ends the call at the
\* attempt that received it, with None as the value returned: the call is
\* neither retried nor raised.
C29_NotFoundIsNone ==
    NotFoundAnswer =>
        /\ client.pc \in {"returned", "idle"}
        /\ client.last = "None"

\* get_entitlement returned None for a 404 at its first attempt.
C29_Witness ==
    /\ NotFoundAnswer
    /\ client.op = "get_entitlement"
    /\ client.pc = "returned"
    /\ client.tries = 1


-----------------------------------------------------------------------------
(* C30: the limiter under concurrent invocations *)

\* The threads at a given place of the wrapper.
ThreadsAt(pcs) == { k \in Reqs : limiter.thread[k].pc \in pcs }

-----------------------------------------------------------------------------
(* C31 *)

\* What an invocation of handle_entitlement works from: the event id and
\* type, what get_entitlement and get_account answered (and whether the
\* product's settings loaded).
SameInputs(a, b) ==
    /\ InEntitlementHandler(a) /\ InEntitlementHandler(b)
    /\ a.body.entitlement = b.body.entitlement
    /\ a.event_type = b.event_type
    /\ a.fetched = b.fetched
    /\ a.from_env = b.from_env
    /\ a.fetched_account = b.fetched_account

\* The first n calls of a came back as the first n calls of b did.
SameSoFar(a, b, n) ==
    /\ n <= Len(a.calls) /\ n <= Len(b.calls)
    /\ SubSeq(a.calls, 1, n) = SubSeq(b.calls, 1, n)

\* C31: what an invocation of handle_entitlement does is decided by the
\* event id, the event type, the entitlement and the account it fetched, and
\* the product settings: of two invocations that agree on these, whatever
\* else their messages carry (an "account" member, an embedded state) and
\* whichever requests were answered before each, the next call of one is the
\* next call of the other as long as their calls came back alike, one that
\* has returned made every call the other makes, and after the same calls
\* both are at the same point and have published the same data.
C31_ActionsDecidedByFetchedState ==
    \A r1, r2 \in Reqs :
        LET a == req[r1]
            b == req[r2]
        IN
        SameInputs(a, b) =>
            /\ \A i \in 1..Len(a.calls) :
                 SameSoFar(a, b, i - 1) /\ i <= Len(b.calls) =>
                     /\ a.calls[i].op = b.calls[i].op
                     /\ a.calls[i].arg = b.calls[i].arg
            /\ (a.pc = "done" /\ SameSoFar(a, b, Len(a.calls))) =>
                   Len(b.calls) = Len(a.calls)
            /\ a.calls = b.calls =>
                   /\ a.pc = b.pc
                   /\ a.raised = b.raised
                   /\ a.published = b.published

\* Two invocations that fetched the same approved resources, one from a bare
\* message that arrived first, one from a message with an "account" member
\* and an embedded state that differs from the fetched one; both sent the
\* creation-request email and returned.
C31_Witness ==
    \E r1, r2 \in Reqs :
        LET a == req[r1]
            b == req[r2]
        IN
        /\ SameInputs(a, b)
        /\ a.pc = "done" /\ b.pc = "done"
        /\ a.body.embedded = Absent /\ a.body.account = Absent
        /\ b.body.embedded # Absent /\ b.body.account # Absent
        /\ b.body.embedded # b.fetched.state
        /\ a.prior # b.prior
        /\ a.approved
        /\ NumCalls(a, "send_email") = 1
        /\ a.calls = b.calls

-----------------------------------------------------------------------------
(* C32 *)

\* The procurement writes a request has issued, answered or failed.
WritesIssued(rq) ==
    NumCalls(rq, "approve_entitlement") + NumCalls(rq, "approve_entitlement_plan_change")

\* C32: an invocation of handle_entitlement issues at most one procurement
\* write (approve_entitlement or approve_entitlement_plan_change, never
\* both) and at most one publish, never a write and a publish together; and
\* approve_entitlement is issued only for CREATION_REQUESTED with fetched
\* state ACTIVATION_REQUESTED and auto_approve_entitlements set.
C32_OneWriteOrOnePublish ==
    \A r \in Reqs :
        LET rq == req[r] IN
        InEntitlementHandler(rq) =>
            /\ WritesIssued(rq) <= 1
            /\ NumCalls(rq, "publish") <= 1
            /\ WritesIssued(rq) + NumCalls(rq, "publish") <= 1
            /\ NumCalls(rq, "approve_entitlement") > 0 =>
                   /\ OnRow(rq, "ENTITLEMENT_CREATION_REQUESTED",
                                "ENTITLEMENT_ACTIVATION_REQUESTED")
                   /\ product_settings.auto_approve_entitlements

\* An invocation approved the entitlement, with a change topic configured,
\* and returned after its notifications.
C32_Witness ==
    \E r \in Reqs :
        /\ InEntitlementHandler(req[r])
        /\ req[r].pc = "done"
        /\ NumCalls(req[r], "approve_entitlement") = 1
        /\ Truthy(product_settings.event_topic)
        /\ NumCalls(req[r], "send_slack_message") = 1

-----------------------------------------------------------------------------
(* C33 *)

\* C33: the approval of a plan change does not wait for
\* auto_approve_entitlements: for PLAN_CHANGE_REQUESTED with fetched state
\* PENDING_PLAN_CHANGE_APPROVAL, an approved account and a newPendingPlan,
\* approve_entitlement_plan_change is called with the setting on and with
\* the setting off.
C33_PlanChangeNotGatedByAutoApprove ==
    \A r \in Reqs :
        \A auto_approve \in BOOLEAN :
            ( /\ PlanChangeRow(req[r])
              /\ req[r].fetched.newPendingPlan # Absent
              /\ product_settings.auto_approve_entitlements = auto_approve )
            => NumCalls(req[r], "approve_entitlement_plan_change") >= 1

\* A plan change was approved with auto_approve_entitlements off.
C33_Witness ==
    \E r \in Reqs :
        /\ PlanChangeRow(req[r])
        /\ req[r].fetched.newPendingPlan = "plan-b"
        /\ ~product_settings.auto_approve_entitlements
        /\ \E i \in CallsOf(req[r], "approve_entitlement_plan_change") : req[r].calls[i].ok

-----------------------------------------------------------------------------
(* C34 *)

\* The request's approve_entitlement call failed after the client's retries.
ApproveFailed(rq) ==
    /\ InEntitlementHandler(rq)
    /\ \E i \in CallsOf(rq, "approve_entitlement") : ~rq.calls[i].ok

\* C34: on the creation-request row with auto_approve_entitlements, an
\* approve_entitlement that still fails after the client's retries leaves
\* handle_entitlement as an exception, and neither the creation-request
\* email nor the Slack message is attempted for that delivery.
C34_FailedApprovalSkipsNotifications ==
    \A r \in Reqs :
        LET rq == req[r] IN
        ApproveFailed(rq) =>
            /\ rq.raised
            /\ rq.pc = "done"
            /\ NumCalls(rq, "send_email") = 0
            /\ NumCalls(rq, "send_slack_message") = 0
            /\ rq.calls[Len(rq.calls)].op = "approve_entitlement"

\* The approval failed with email recipients and a Slack webhook configured.
C34_Witness ==
    \E r \in Reqs :
        /\ ApproveFailed(req[r])
        /\ OnRow(req[r], "ENTITLEMENT_CREATION_REQUESTED",
                         "ENTITLEMENT_ACTIVATION_REQUESTED")
        /\ product_settings.auto_approve_entitlements
        /\ product_settings.email_recipients # <<>>
        /\ Truthy(product_settings.slack_webhook)

-----------------------------------------------------------------------------
(* C35 *)

\* C35: the claims a session holds were returned by a successful
\* verify_marketplace_jwt in the current or an earlier request of the
\* session; so, over any sequence of /signup and /activate requests, the
\* account id of every approve_account of the activation flow is the "sub"
\* of claims a successful verification returned.
C35_SessionClaimsWereVerified ==
    /\ session.jwt_claims.present =>
           /\ session.jwt_claims.sub \in session.verified
           /\ Truthy(session.jwt_claims.sub)
    /\ web.arrived_with.present => web.arrived_with.sub \in session.verified
    /\ web.route = "activate" =>
           \A i \in CallsOf(web, "approve_account") :
               web.calls[i].arg \in session.verified

\* An activation that arrived without claims in its session and with a
\* token, verified it and approved the account of its subject.
C35_Witness ==
    /\ web.route = "activate"
    /\ ~web.arrived_with.present
    /\ web.verify = "ok"
    /\ \E i \in CallsOf(web, "approve_account") :
           web.calls[i].ok /\ web.calls[i].arg = web.token.sub

-----------------------------------------------------------------------------
(* C36 *)

\* The calls of the last answer with operation op that failed.
FailedCalls(resp, op) == { i \in CallsOf(resp, op) : ~resp.calls[i].ok }

\* C36: in the activation flow, a lookup of the pending entitlement that
\* fails does not fail the activation: the account stays approved, no
\* approve_entitlement is made and the success page is returned (HTTP 200);
\* an approve_account that fails is an error (HTTP 500), with no lookup and
\* no entitlement approval.
C36_LookupFailureTolerated ==
    web.route = "activate" =>
        /\ FailedCalls(web, "list_entitlements") # {} =>
               /\ web.status = 200
               /\ NumCalls(web, "approve_entitlement") = 0
               /\ \E i \in CallsOf(web, "approve_account") : web.calls[i].ok
               /\ is_account_approved(account)
        /\ FailedCalls(web, "approve_account") # {} =>
               /\ web.status = 500
               /\ NumCalls(web, "list_entitlements") = 0
               /\ NumCalls(web, "approve_entitlement") = 0

\* The lookup failed in an activation that would have approved a pending
\* entitlement: auto-approval is on and the entitlement awaits activation.
C36_Witness ==
    /\ web.route = "activate"
    /\ FailedCalls(web, "list_entitlements") # {}
    /\ settings.auto_approve_entitlements
    /\ entitlement.found
    /\ entitlement.state = "ENTITLEMENT_ACTIVATION_REQUESTED"
    /\ web.status = 200

-----------------------------------------------------------------------------
(* C37 *)

\* The request's body decoded to a JSON object.
DecodedObject(rq) ==
    /\ rq.pc # "idle"
    /\ rq.body.envelope = "ok"
    /\ decodes(rq.body)
    /\ rq.body.kind = "object"

AccountSubjects == { "New Account Pending Approval", "New Account Approved" }

\* C37: a webhook request invokes at most one handler.  A decoded message
\* with both "entitlement" and "eventType" goes to handle_entitlement only,
\* also when it has an "account" member; a message with "account" that lacks
\* "entitlement" or "eventType" goes to handle_account only; and each
\* request makes the calls of its handler alone.
C37_OneHandlerPerRequest ==
    \A r \in Reqs :
        LET rq == req[r] IN
        /\ rq.handler \in {"none", "handle_entitlement", "handle_account"}
        /\ DecodedObject(rq) =>
              rq.handler =
                 IF rq.body.entitlement # Absent /\ rq.body.eventType # Absent
                 THEN "handle_entitlement"
                 ELSE IF rq.body.account # Absent THEN "handle_account"
                 ELSE "none"
        /\ rq.handler = "handle_entitlement" =>
              \A i \in CallsOf(rq, "send_email") : rq.calls[i].arg \notin AccountSubjects
        /\ rq.handler = "handle_account" =>
              \A i \in 1..Len(rq.calls) :
                 /\ rq.calls[i].op \in {"get_account", "send_email"}
                 /\ rq.calls[i].op = "send_email" => rq.calls[i].arg \in AccountSubjects
        /\ rq.handler = "none" => rq.calls = <<>>

\* A message with "entitlement", "eventType" and "account" was handled by
\* handle_entitlement, which fetched the entitlement and its account.
C37_Witness ==
    \E r \in Reqs :
        /\ DecodedObject(req[r])
        /\ req[r].body.entitlement # Absent
        /\ req[r].body.eventType # Absent
        /\ req[r].body.account # Absent
        /\ req[r].handler = "handle_entitlement"
        /\ req[r].account_seen
        /\ req[r].pc = "done"

-----------------------------------------------------------------------------
(* C38 *)

ListRoutes == { "index", "entitlements" }

\* C38: a request to list the entitlements (GET /v1/entitlements or /app)
\* whose "state" parameter is absent or is not one of entitlement_states is
\* served with the filter "state=ACTIVATION_REQUESTED" and is not rejected
\* (one list_entitlements call, and HTTP 200 unless that call fails); a
\* state of entitlement_states is passed on as "state=<that state>".
C38_ListStateDefaults ==
    web.route \in ListRoutes =>
        /\ NumCalls(web, "list_entitlements") = 1
        /\ Len(web.calls) = 1
        /\ web.status = IF web.calls[1].ok THEN 200 ELSE 500
        /\ (web.state = Absent \/ web.state \notin entitlement_states) =>
               web.filter = "state=ACTIVATION_REQUESTED"
        /\ web.state \in entitlement_states =>
               web.filter = "state=" \o web.state

\* /v1/entitlements?state=SUSPENDED, a state the service knows and the list
\* of allowed states does not, was answered with the pending activations.
C38_Witness ==
    /\ web.route = "index"
    /\ web.state = "SUSPENDED"
    /\ web.status = 200
    /\ web.filter = "state=ACTIVATION_REQUESTED"

-----------------------------------------------------------------------------
(* C39 *)

\* An attempt has been made of a call whose identifier (or plan) is empty.
EmptyIdAttempted ==
    /\ client.op \in GetOps \cup WriteOps
    /\ ~client.has_id
    /\ client.tries >= 1

\* C39: an operation called with an empty identifier (for
\* approve_entitlement_plan_change, also with an empty plan) sends no remote
\* request: get_account and get_entitlement return None, and the writes
\* raise ValueError, at the first attempt and without a retry.
C39_EmptyIdFailsAtOnce ==
    EmptyIdAttempted =>
        /\ client.answer = "none"
        /\ client.tries = 1
        /\ client.op \in GetOps =>
               client.pc \in {"returned", "idle"} /\ client.last = "None"
        /\ client.op \in WriteOps =>
               client.pc \in {"raised", "idle"} /\ client.last = "ValueError"
=============================================================================
